---------------------------- MODULE Spec2Model ----------------------------
(***************************************************************************)
(* Verification model of @react-hive/honey-utils.                          *)
(*                                                                         *)
(* Two clusters are modelled:                                              *)
(*   - the bounded motion model: resolveBoundedDelta, applyInertiaStep     *)
(*     (src/src/geometry/resolve-bounded-delta.ts, apply-inertia-step.ts)  *)
(*   - the flattened tree model: flattenTree (src/src/tree/flatten-tree.ts)*)
(*                                                                         *)
(* Numbers.  A JavaScript number is modelled as an exact rational <<n, d>> *)
(* in lowest terms with d > 0.  The model covers finite numbers only:      *)
(* NaN, +Infinity, -Infinity and rounding are outside its domain.  null is *)
(* the tuple NULL == <<0, 0>>, which is no rational.                       *)
(*                                                                         *)
(* Math.exp.  friction is measured in units of ln 2 per millisecond, so    *)
(* that Math.exp(-friction * deltaTimeMs) = 2^(-friction * deltaTimeMs) is *)
(* an exact rational whenever friction * deltaTimeMs is an integer.        *)
(***************************************************************************)
EXTENDS Integers, Sequences, FiniteSets, TLC

VARIABLES
    rbd,        \* one call of resolveBoundedDelta: its arguments, position and result
    inertia,    \* the caller-owned inertia loop: bounds, options, value, velocityPxMs
    hist,       \* history of the applyInertiaStep calls of the loop, oldest first
    heap,       \* the objects of the tree cluster: reference -> record of fields
    items,      \* the items argument of the flattenTree call
    input,      \* history: heap and items as they were when flattenTree was called
    tpc,        \* position of the flattenTree call: "idle", "call", "run", "done"
    stack,      \* the active flattenTree invocations, outermost first
    flatTree,   \* the accumulator array all invocations share: references of flat nodes
    origin,     \* history: the input node each flat node was emitted from
    search,     \* one call of searchTree: its arguments, position, locals and result
    matchedNodes, \* the accumulator array of searchTree's reduce: references of flat nodes
    searchLog,  \* history: what the reduce callback computed for each node it visited
    gtc,        \* one call of getTreeChildren: its arguments, position and result
    rt,         \* one call of the function retry returned: options, arguments, position
    rtLog,      \* history: the attempts of that call, each task call and how it ended
    onceCall,   \* a function returned by once: its closure (called, result) and its calls
    filt,       \* one call of filterParallel and one of filterSequential on the same input
    tmo,        \* one call of timeout: the wrapped promise, the timer, the returned promise
    seqRun,     \* one call of runSequential: position, results and the calls of fn
    focus       \* the document of moveFocusWithinContainer: elements, active element, call

motionVars == <<rbd, inertia, hist>>
treeVars == <<heap, items, input, tpc, stack, flatTree, origin>>
treeUseVars == <<search, matchedNodes, searchLog, gtc>>
asyncVars == <<rt, rtLog>>
utilVars == <<onceCall, filt, tmo, seqRun, focus>>
vars == <<motionVars, treeVars, treeUseVars, asyncVars, utilVars>>

\* the state outside the motion cluster, and outside flattenTree
nonMotionVars == <<treeVars, treeUseVars, asyncVars, utilVars>>
nonTreeVars == <<motionVars, treeUseVars, asyncVars, utilVars>>
nonTreeUseVars == <<motionVars, treeVars, asyncVars, utilVars>>
nonAsyncVars == <<motionVars, treeVars, treeUseVars, utilVars>>
\* the state outside each of the remaining functions
coreVars == <<motionVars, treeVars, treeUseVars, asyncVars>>
nonOnceVars == <<coreVars, filt, tmo, seqRun, focus>>
nonFilterVars == <<coreVars, onceCall, tmo, seqRun, focus>>
nonTimeoutVars == <<coreVars, onceCall, filt, seqRun, focus>>
nonSequentialVars == <<coreVars, onceCall, filt, tmo, focus>>
nonFocusVars == <<coreVars, onceCall, filt, tmo, seqRun>>

\* the tree cluster at rest
TreeIdle ==
    /\ heap = <<>> /\ items = <<>> /\ input = <<>> /\ tpc = "idle"
    /\ stack = <<>> /\ flatTree = <<>> /\ origin = <<>>

\* no searchTree and no getTreeChildren call
TreeUseIdle ==
    /\ search = [pc |-> "idle"] /\ matchedNodes = <<>> /\ searchLog = <<>>
    /\ gtc = [pc |-> "idle"]

\* the function retry returned was not called
AsyncIdle == rt = [pc |-> "idle"] /\ rtLog = <<>>

\* a function not called yet
NotCalled == [pc |-> "idle"]
OnceIdle == onceCall = NotCalled
FilterIdle == filt = NotCalled
TimeoutIdle == tmo = NotCalled
SequentialIdle == seqRun = NotCalled
FocusIdle == focus = NotCalled
UtilIdle == OnceIdle /\ FilterIdle /\ TimeoutIdle /\ SequentialIdle /\ FocusIdle

\* everything outside the motion cluster at rest
NonMotionIdle == TreeIdle /\ TreeUseIdle /\ AsyncIdle /\ UtilIdle

(***************************************************************************)
(* Bounds of the model.                                                    *)
(***************************************************************************)
\* largest magnitude of the integers the arguments of resolveBoundedDelta are drawn from
MaxMag == 3
\* largest number of applyInertiaStep calls one inertia loop makes
MaxSteps == 3

(***************************************************************************)
(* Rational arithmetic: the model of JavaScript's finite numbers.          *)
(***************************************************************************)
NULL == <<0, 0>>

Abs(n) == IF n < 0 THEN -n ELSE n

RECURSIVE Gcd(_, _)
Gcd(a, b) == IF b = 0 THEN a ELSE Gcd(b, a % b)

\* the rational n / d (d > 0) in lowest terms
Norm(n, d) == LET g == Gcd(Abs(n), d) IN <<n \div g, d \div g>>

Num(n) == <<n, 1>>

\* a + b, over the least common denominator
Add(a, b) == LET g == Gcd(a[2], b[2]) IN
             Norm(a[1] * (b[2] \div g) + b[1] * (a[2] \div g), (a[2] \div g) * b[2])
\* a * b, cancelling across before multiplying
Mul(a, b) == LET g1 == Gcd(Abs(a[1]), b[2])
                 g2 == Gcd(Abs(b[1]), a[2])
             IN  Norm((a[1] \div g1) * (b[1] \div g2), (a[2] \div g2) * (b[2] \div g1))
\* -a
Neg(a) == <<-a[1], a[2]>>
\* a - b
Sub(a, b) == Add(a, Neg(b))
\* a < b, a <= b, a > b, a >= b
Lt(a, b) == a[1] * b[2] < b[1] * a[2]
Le(a, b) == a[1] * b[2] <= b[1] * a[2]
Gt(a, b) == Lt(b, a)
Ge(a, b) == Le(b, a)

MathAbs(a) == <<Abs(a[1]), a[2]>>
MathMax(a, b) == IF Lt(a, b) THEN b ELSE a
MathMin(a, b) == IF Lt(b, a) THEN b ELSE a

RECURSIVE Pow2(_)
Pow2(k) == IF k = 0 THEN 1 ELSE 2 * Pow2(k - 1)

\* Math.exp(x) for x an integer multiple of ln 2, given in units of ln 2
MathExp(x) == IF x[1] >= 0 THEN <<Pow2(x[1] \div x[2]), 1>>
                           ELSE <<1, Pow2((-x[1]) \div x[2])>>

(***************************************************************************)
(* resolveBoundedDelta, src/src/geometry/resolve-bounded-delta.ts:80-101   *)
(***************************************************************************)
\* seeded fault: the candidate is returned without clamping it to the bound
resolveBoundedDeltaNoClamp(delta, value, min, max) ==
    IF delta = Num(0)
    THEN NULL
    ELSE LET candidate == Add(value, delta) IN
         IF Lt(delta, Num(0))
         THEN (IF Le(value, min) THEN NULL ELSE candidate)
         ELSE IF Gt(delta, Num(0))
         THEN (IF Ge(value, max) THEN NULL ELSE candidate)
         ELSE NULL

\* seeded fault: the blocked test is strict (value < min, value > max)
resolveBoundedDeltaStrictBlock(delta, value, min, max) ==
    IF delta = Num(0)
    THEN NULL
    ELSE LET candidate == Add(value, delta) IN
         IF Lt(delta, Num(0))
         THEN (IF Lt(value, min) THEN NULL ELSE MathMax(candidate, min))
         ELSE IF Gt(delta, Num(0))
         THEN (IF Gt(value, max) THEN NULL ELSE MathMin(candidate, max))
         ELSE NULL

\* seeded fault: Math.max and Math.min are swapped
resolveBoundedDeltaSwappedClamp(delta, value, min, max) ==
    IF delta = Num(0)
    THEN NULL
    ELSE LET candidate == Add(value, delta) IN
         IF Lt(delta, Num(0))
         THEN (IF Le(value, min) THEN NULL ELSE MathMin(candidate, min))
         ELSE IF Gt(delta, Num(0))
         THEN (IF Ge(value, max) THEN NULL ELSE MathMax(candidate, max))
         ELSE NULL

\* seeded fault: movement is never blocked at a bound
resolveBoundedDeltaNeverBlocked(delta, value, min, max) ==
    IF delta = Num(0)
    THEN NULL
    ELSE LET candidate == Add(value, delta) IN
         IF Lt(delta, Num(0))
         THEN MathMax(candidate, min)
         ELSE IF Gt(delta, Num(0))
         THEN MathMin(candidate, max)
         ELSE NULL

\* seeded fault: the delta is subtracted from the value
resolveBoundedDeltaReversed(delta, value, min, max) ==
    IF delta = Num(0)
    THEN NULL
    ELSE LET candidate == Sub(value, delta) IN
         IF Lt(delta, Num(0))
         THEN (IF Le(value, min) THEN NULL ELSE MathMax(candidate, min))
         ELSE IF Gt(delta, Num(0))
         THEN (IF Ge(value, max) THEN NULL ELSE MathMin(candidate, max))
         ELSE NULL

resolveBoundedDelta(delta, value, min, max) ==
    IF delta = Num(0)
    THEN NULL
    ELSE LET candidate == Add(value, delta) IN
         IF Lt(delta, Num(0))
         THEN (IF Le(value, min) THEN NULL ELSE MathMax(candidate, min))
         ELSE IF Gt(delta, Num(0))
         THEN (IF Ge(value, max) THEN NULL ELSE MathMin(candidate, max))
         ELSE NULL

\* the numbers the arguments of a resolveBoundedDelta call are drawn from:
\* the integers and half-integers of magnitude at most MaxMag
DeltaNums == {Norm(n, 2) : n \in (-2 * MaxMag)..(2 * MaxMag)}

NoCall == [pc |-> "idle"]

\* a caller is about to call resolveBoundedDelta({ delta, value, min, max })
InitDelta ==
    /\ rbd \in [pc : {"call"}, delta : DeltaNums, value : DeltaNums,
                min : DeltaNums, max : DeltaNums, result : {NULL}]
    /\ inertia = NoCall
    /\ hist = <<>>
    /\ NonMotionIdle

\* the call runs and returns
CallResolveBoundedDelta ==
    /\ rbd.pc = "call"
    /\ rbd' = [rbd EXCEPT !.pc = "done",
                          !.result = resolveBoundedDelta(rbd.delta, rbd.value, rbd.min, rbd.max)]
    /\ UNCHANGED <<inertia, hist, nonMotionVars>>

NextDelta == CallResolveBoundedDelta

SpecDelta == InitDelta /\ [][NextDelta]_vars

\* lo <= x <= hi
InRange(x, lo, hi) == Le(lo, x) /\ Le(x, hi)

\* the call has returned and its arguments met the precondition min <= value <= max
DeltaReturned == rbd.pc = "done" /\ InRange(rbd.value, rbd.min, rbd.max)

\* C1: for min <= value <= max and delta # 0, resolveBoundedDelta returns null
\* or a number within [min, max]
C1_ResultWithinBounds ==
    (DeltaReturned /\ rbd.delta # Num(0))
        => (rbd.result = NULL \/ InRange(rbd.result, rbd.min, rbd.max))

\* a positive delta that overshoots max was consumed up to max
C1_Witness ==
    /\ DeltaReturned
    /\ Lt(rbd.value, rbd.max)
    /\ Gt(Add(rbd.value, rbd.delta), rbd.max)
    /\ rbd.result = rbd.max

\* C2: for min <= value <= max, null is returned exactly when delta = 0, or
\* delta < 0 and value <= min, or delta > 0 and value >= max; otherwise an
\* overshooting delta lands on the bound and any other delta yields value + delta
C2_ExactResult ==
    DeltaReturned =>
        LET sum == Add(rbd.value, rbd.delta)
            blocked == \/ rbd.delta = Num(0)
                       \/ Lt(rbd.delta, Num(0)) /\ Le(rbd.value, rbd.min)
                       \/ Gt(rbd.delta, Num(0)) /\ Ge(rbd.value, rbd.max)
        IN
        /\ (rbd.result = NULL) <=> blocked
        /\ ~blocked =>
              rbd.result = IF Lt(rbd.delta, Num(0))
                           THEN (IF Lt(sum, rbd.min) THEN rbd.min ELSE sum)
                           ELSE (IF Gt(sum, rbd.max) THEN rbd.max ELSE sum)

\* a negative delta that overshoots min was consumed up to min
C2_Witness ==
    /\ DeltaReturned
    /\ Gt(rbd.value, rbd.min)
    /\ Lt(Add(rbd.value, rbd.delta), rbd.min)
    /\ rbd.result = rbd.min

(***************************************************************************)
(* applyInertiaStep.  The repository holds two variants:                   *)
(*   - src/src/geometry/apply-inertia-step.ts:145-189, with EMA smoothing  *)
(*     and a second termination check on the computed velocity;            *)
(*   - src/unnamed/part_001:125-161, without smoothing and without the     *)
(*     second check.                                                       *)
(* An omitted option is Undefined and takes its default.  friction is      *)
(* always passed by the modelled callers: its default 0.002 is no multiple *)
(* of the friction unit of this model.                                     *)
(***************************************************************************)
Undefined == <<1, 0>>

\* minVelocityPxMs = 0.01
DefaultMinVelocityPxMs == Norm(1, 100)
\* emaAlpha = 0.2
DefaultEmaAlpha == Norm(1, 5)

\* a destructured parameter with a default value
OrDefault(x, dflt) == IF x = Undefined THEN dflt ELSE x

\* null, as the result of applyInertiaStep
NullStep == [isNull |-> TRUE]

\* seeded fault: the exponent is positive
DecayGrowing(friction, deltaTimeMs) == MathExp(Mul(friction, deltaTimeMs))

\* seeded fault: friction is applied per call (per frame of 8 ms), whatever time elapsed
DecayPerFrame(friction, deltaTimeMs) == MathExp(Mul(Neg(friction), Num(8)))

\* const decay = Math.exp(-friction * deltaTimeMs)
Decay(friction, deltaTimeMs) == MathExp(Mul(Neg(friction), deltaTimeMs))

\* seeded fault: only a velocity of exactly 0 is taken to be at rest
IsAtRest(velocityPxMs, minVelocityPxMs) == velocityPxMs = Num(0)

\* Math.abs(velocityPxMs) < minVelocityPxMs
IsBelowMinVelocity(velocityPxMs, minVelocityPxMs) == Lt(MathAbs(velocityPxMs), minVelocityPxMs)

\* src/src/geometry/apply-inertia-step.ts:145-189
applyInertiaStep(value, min, max, velocityPxMs, deltaTimeMs, friction, minVelocityPxMsOpt, emaAlphaOpt) ==
    LET minVelocityPxMs == OrDefault(minVelocityPxMsOpt, DefaultMinVelocityPxMs)
        emaAlpha == OrDefault(emaAlphaOpt, DefaultEmaAlpha)
    IN
    IF IsBelowMinVelocity(velocityPxMs, minVelocityPxMs)
    THEN NullStep
    ELSE LET nextValue == resolveBoundedDelta(Mul(velocityPxMs, deltaTimeMs), value, min, max) IN
         IF nextValue = NULL
         THEN NullStep
         ELSE LET decay == Decay(friction, deltaTimeMs)
                  pureVelocityPxMs == Mul(velocityPxMs, decay)
                  nextVelocityPxMs ==
                      IF Gt(emaAlpha, Num(0))
                      THEN Add(Mul(velocityPxMs, Sub(Num(1), emaAlpha)), Mul(pureVelocityPxMs, emaAlpha))
                      ELSE pureVelocityPxMs
              IN
              IF IsBelowMinVelocity(nextVelocityPxMs, minVelocityPxMs)
              THEN NullStep
              ELSE [value |-> nextValue, velocityPxMs |-> nextVelocityPxMs]

\* src/unnamed/part_001:125-161, the variant without smoothing
applyInertiaStepPlain(value, min, max, velocityPxMs, deltaTimeMs, friction, minVelocityPxMsOpt) ==
    LET minVelocityPxMs == OrDefault(minVelocityPxMsOpt, DefaultMinVelocityPxMs) IN
    IF IsBelowMinVelocity(velocityPxMs, minVelocityPxMs)
    THEN NullStep
    ELSE LET delta == Mul(velocityPxMs, deltaTimeMs)
             nextValue == resolveBoundedDelta(delta, value, min, max)
         IN
         IF nextValue = NULL
         THEN NullStep
         ELSE LET decay == Decay(friction, deltaTimeMs)
                  nextVelocityPxMs == Mul(velocityPxMs, decay)
              IN  [value |-> nextValue, velocityPxMs |-> nextVelocityPxMs]

\* one call of the variant the loop uses
Step(variant, value, min, max, velocityPxMs, deltaTimeMs, opts) ==
    IF variant = "ema"
    THEN applyInertiaStep(value, min, max, velocityPxMs, deltaTimeMs,
                          opts.friction, opts.minVelocityPxMs, opts.emaAlpha)
    ELSE applyInertiaStepPlain(value, min, max, velocityPxMs, deltaTimeMs,
                               opts.friction, opts.minVelocityPxMs)

(***************************************************************************)
(* The caller-owned inertia loop: every animation tick it calls            *)
(* applyInertiaStep with the value and velocityPxMs of the previous result *)
(* and the time elapsed, and stops when null is returned.                  *)
(***************************************************************************)
\* upper bound of the positions of the loop (the lower bound is 0 or its negative)
MaxPos == 20

Variants == {"ema", "plain"}
\* elapsed time of one tick, in ms
DeltaTimes == {Num(0), Num(8), Num(16)}
\* friction, in units of ln 2 per ms
Frictions == {Num(0), Norm(1, 8), Norm(1, 4)}
EmaAlphas == {Undefined, Num(0), Norm(1, 2), Num(1)}
MinVelocities == {Undefined, Num(0), Norm(1, 4)}
Velocities == {Num(0), Norm(1, 128), Norm(-1, 128), Norm(1, 64), Norm(1, 2), Norm(-1, 2),
               Num(1), Num(-1), Num(2), Num(-2)}
Mins == {Num(-MaxPos), Num(0)}
StartValues(min, max) == {min, max, Sub(max, Num(4)), Add(min, Norm(1, 2))}

InitInertia ==
    /\ rbd = NoCall
    /\ hist = <<>>
    /\ NonMotionIdle
    /\ \E variant \in Variants, min \in Mins, velocityPxMs \in Velocities,
          friction \in Frictions, minVelocityPxMs \in MinVelocities, emaAlpha \in EmaAlphas :
         \E value \in StartValues(min, Num(MaxPos)) :
            inertia = [pc |-> "run", variant |-> variant,
                       min |-> min, max |-> Num(MaxPos),
                       opts |-> [friction |-> friction, minVelocityPxMs |-> minVelocityPxMs,
                                 emaAlpha |-> IF variant = "ema" THEN emaAlpha ELSE Undefined],
                       value |-> value, velocityPxMs |-> velocityPxMs]

\* one tick of a loop of at most maxCalls calls: one call of applyInertiaStep,
\* with the time elapsed one of deltaTimes
Tick(maxCalls, deltaTimes) ==
    /\ inertia.pc = "run"
    /\ Len(hist) < maxCalls
    /\ \E deltaTimeMs \in deltaTimes :
         LET result == Step(inertia.variant, inertia.value, inertia.min, inertia.max,
                            inertia.velocityPxMs, deltaTimeMs, inertia.opts)
         IN
         /\ hist' = Append(hist, [value |-> inertia.value, velocityPxMs |-> inertia.velocityPxMs,
                                  deltaTimeMs |-> deltaTimeMs, result |-> result])
         /\ inertia' = IF result = NullStep
                       THEN [inertia EXCEPT !.pc = "blocked"]
                       ELSE [inertia EXCEPT !.value = result.value,
                                            !.velocityPxMs = result.velocityPxMs]
    /\ UNCHANGED <<rbd, nonMotionVars>>

InertiaTick == Tick(MaxSteps, DeltaTimes)

NextInertia == InertiaTick

SpecInertia == InitInertia /\ [][NextInertia]_vars

\* the options of the loop, defaults applied
MinVelocityOf(opts) == OrDefault(opts.minVelocityPxMs, DefaultMinVelocityPxMs)
\* the smoothing factor in effect: the variant without smoothing has none
EmaAlphaOf(loop) == IF loop.variant = "ema" THEN OrDefault(loop.opts.emaAlpha, DefaultEmaAlpha)
                    ELSE Num(0)

\* the calls of the loop that returned a state
Returned == {i \in DOMAIN hist : hist[i].result # NullStep}

\* every call took the value and velocityPxMs the previous call returned
FedBack == \A i \in DOMAIN hist : i > 1 =>
               /\ hist[i - 1].result # NullStep
               /\ hist[i].value = hist[i - 1].result.value
               /\ hist[i].velocityPxMs = hist[i - 1].result.velocityPxMs

\* C3: along the loop, started with min <= value <= max, every returned value
\* satisfies min <= value <= max
C3_ValueStaysWithinBounds ==
    /\ FedBack
    /\ (hist # <<>> /\ InRange(hist[1].value, inertia.min, inertia.max))
          => \A i \in Returned : InRange(hist[i].result.value, inertia.min, inertia.max)

\* two calls returned a state, the second one stopped exactly on max
C3_Witness ==
    /\ Len(hist) >= 2
    /\ {1, 2} \subseteq Returned
    /\ Lt(hist[2].value, inertia.max)
    /\ Gt(Add(hist[2].value, Mul(hist[2].velocityPxMs, hist[2].deltaTimeMs)), inertia.max)
    /\ hist[2].result.value = inertia.max

\* C4: null is returned whenever abs(velocityPxMs) < minVelocityPxMs on entry and
\* whenever the value sits at the bound the velocity points to
C4_BlockedAtRestAndAtBound ==
    \A i \in DOMAIN hist :
        (\/ Lt(MathAbs(hist[i].velocityPxMs), MinVelocityOf(inertia.opts))
         \/ Le(hist[i].value, inertia.min) /\ Lt(hist[i].velocityPxMs, Num(0))
         \/ Ge(hist[i].value, inertia.max) /\ Gt(hist[i].velocityPxMs, Num(0)))
            => hist[i].result = NullStep

\* the loop reached max with a velocity above the threshold, and the next call
\* with time elapsed returned null
C4_Witness ==
    /\ Len(hist) >= 2
    /\ hist[1].result # NullStep
    /\ hist[2].value = inertia.max
    /\ Gt(hist[2].velocityPxMs, Num(0))
    /\ Ge(hist[2].velocityPxMs, MinVelocityOf(inertia.opts))
    /\ Gt(hist[2].deltaTimeMs, Num(0))
    /\ hist[2].result = NullStep

\* C5: every non-null result has abs(result.velocityPxMs) >= minVelocityPxMs
C5_ReturnedVelocityAboveThreshold ==
    \A i \in Returned :
        Ge(MathAbs(hist[i].result.velocityPxMs), MinVelocityOf(inertia.opts))

\* every deltaTimeMs of the loop so far is the same positive number
ConstantDeltaTime == \A i \in DOMAIN hist :
                         hist[i].deltaTimeMs = hist[1].deltaTimeMs /\ Gt(hist[i].deltaTimeMs, Num(0))

\* C6: with friction > 0, emaAlpha = 0 and a constant deltaTimeMs > 0, abs(velocityPxMs)
\* strictly decreases from every call of the loop to the next
C6_VelocityStrictlyDecreases ==
    (Gt(inertia.opts.friction, Num(0)) /\ EmaAlphaOf(inertia) = Num(0) /\ ConstantDeltaTime)
        => /\ FedBack
           /\ \A i \in Returned :
                 Lt(MathAbs(hist[i].result.velocityPxMs), MathAbs(hist[i].velocityPxMs))

\* three calls in a row returned a state under friction, without smoothing
C6_Witness ==
    /\ Gt(inertia.opts.friction, Num(0))
    /\ inertia.variant = "ema"
    /\ inertia.opts.emaAlpha = Num(0)
    /\ ConstantDeltaTime
    /\ Len(hist) = 3
    /\ Returned = {1, 2, 3}
    /\ Lt(MathAbs(hist[3].result.velocityPxMs), MathAbs(hist[2].result.velocityPxMs))
    /\ Lt(MathAbs(hist[2].result.velocityPxMs), MathAbs(hist[1].result.velocityPxMs))

\* call i and call i + 1 each took time t and returned a state, and one call
\* from the state before call i taking time 2t returns a state as well
TwoStepsAndOne(i, t) ==
    /\ i + 1 \in DOMAIN hist
    /\ hist[i].deltaTimeMs = t /\ hist[i + 1].deltaTimeMs = t
    /\ hist[i].result # NullStep /\ hist[i + 1].result # NullStep
    /\ Step(inertia.variant, hist[i].value, inertia.min, inertia.max,
            hist[i].velocityPxMs, Mul(Num(2), t), inertia.opts) # NullStep

\* the velocity after calls i and i + 1 is the velocity one call taking 2t leaves
SameVelocity(i, t) ==
    hist[i + 1].result.velocityPxMs =
        Step(inertia.variant, hist[i].value, inertia.min, inertia.max,
             hist[i].velocityPxMs, Mul(Num(2), t), inertia.opts).velocityPxMs

\* C7 as stated: under any configuration two calls taking t leave the velocity
\* of one call taking 2t
C7_FrameRateIndependent ==
    \A i \in DOMAIN hist : \A t \in DeltaTimes :
        TwoStepsAndOne(i, t) => SameVelocity(i, t)

\* C7 amended: two calls taking t leave the velocity of one call taking 2t when
\* friction = 0 or the velocity is not blended (emaAlpha = 0, emaAlpha = 1, or
\* the variant without smoothing)
C7_FrameRateIndependentUnblended ==
    (\/ inertia.opts.friction = Num(0)
     \/ EmaAlphaOf(inertia) = Num(0)
     \/ EmaAlphaOf(inertia) = Num(1))
        => \A i \in DOMAIN hist : \A t \in DeltaTimes :
               TwoStepsAndOne(i, t) => SameVelocity(i, t)

\* two calls of 8 ms under friction, smoothing off, decayed the velocity to what
\* one call of 16 ms leaves
C7_Witness ==
    /\ Gt(inertia.opts.friction, Num(0))
    /\ inertia.variant = "ema"
    /\ inertia.opts.emaAlpha = Num(0)
    /\ TwoStepsAndOne(1, Num(8))
    /\ SameVelocity(1, Num(8))
    /\ hist[2].result.velocityPxMs # hist[1].velocityPxMs

(***************************************************************************)
(* flattenTree, src/src/tree/flatten-tree.ts:49-79                         *)
(*                                                                         *)
(* Objects live in the heap and are named by reference; a JavaScript value *)
(* held in a field is a tagged record.  nodeIdKey is 'id' and childrenKey  *)
(* is 'children' in every modelled call.                                   *)
(***************************************************************************)
\* largest number of nodes of an input hierarchy
MaxNodes == 4

JsUndefined == [t |-> "undefined"]
JsNull == [t |-> "null"]
JsNumber(n) == [t |-> "number", v |-> n]
JsString(str) == [t |-> "string", v |-> str]
JsArray(refs) == [t |-> "array", refs |-> refs]

nodeIdKey == "id"
childrenKey == "children"

\* item[key]: reading a property an object lacks yields undefined
Get(obj, key) == IF key \in DOMAIN obj THEN obj[key] ELSE JsUndefined

\* Array.isArray(children)
ArrayIsArray(x) == x.t = "array"

\* const { [childrenKey]: _, ...nodeData } = item
NodeData(item) == [k \in DOMAIN item \ {childrenKey} |-> item[k]]

\* seeded fault: the length of whatever truthy value the children field holds
ChildCountOfTruthy(children) ==
    IF ArrayIsArray(children) THEN Len(children.refs)
    ELSE IF children.t = "string" THEN Len(children.v)
    ELSE 0

\* hasChildrenArray ? children.length : 0
ChildCount(children) == IF ArrayIsArray(children) THEN Len(children.refs) ELSE 0

\* { ...nodeData, parentId, depthLevel, childCount }
FlatNode(item, parentId, depthLevel) ==
    [k \in DOMAIN NodeData(item) \cup {"parentId", "depthLevel", "childCount"} |->
        IF k = "parentId" THEN parentId
        ELSE IF k = "depthLevel" THEN depthLevel
        ELSE IF k = "childCount" THEN ChildCount(Get(item, childrenKey))
        ELSE NodeData(item)[k]]

\* seeded fault: the item itself is stripped of its children, given the metadata and pushed
PushInPlace(h, ref, parentId, depthLevel) ==
    [heap |-> [h EXCEPT ![ref] = FlatNode(h[ref], parentId, depthLevel)], ref |-> ref]

\* flatTree.push({ ... }): a new object is allocated for the flat node
PushFlatNode(h, ref, parentId, depthLevel) ==
    LET new == Cardinality(DOMAIN h) + 1 IN
    [heap |-> h @@ (new :> FlatNode(h[ref], parentId, depthLevel)), ref |-> new]

\* an invocation flattenTree(items, nodeIdKey, childrenKey, flatTree, parentId, depthLevel)
\* about to visit the item at index idx of its forEach
Frame(its, parentId, depthLevel) ==
    [items |-> its, idx |-> 1, parentId |-> parentId, depthLevel |-> depthLevel]

\* seeded fault: the children are flattened at the depth of their parent
ChildFrameSameDepth(item, depthLevel) ==
    Frame(Get(item, childrenKey), Get(item, nodeIdKey), depthLevel)

\* flattenTree(children, nodeIdKey, childrenKey, flatTree, item[nodeIdKey], depthLevel + 1)
ChildFrame(item, depthLevel) ==
    Frame(Get(item, childrenKey), Get(item, nodeIdKey), depthLevel + 1)

(***************************************************************************)
(* The input hierarchies: every forest of at most MaxNodes nodes.  Node i  *)
(* is the object at reference i; parent[i] < i is its parent, 0 for a top- *)
(* level node; a node's children are listed by increasing reference.  A    *)
(* node without children holds no children field, undefined, null, an      *)
(* empty array, or a value that is no array.                               *)
(***************************************************************************)
LeafKinds == {"absent", "undefined", "null", "empty", "string"}
\* ids are unique ("unique": 10 + reference) or all the same ("same")
IdSchemes == {"unique", "same"}

RECURSIVE SeqOfSet(_)
\* the elements of a set of numbers, by increasing value
SeqOfSet(S) == IF S = {} THEN <<>>
               ELSE LET m == CHOOSE x \in S : \A y \in S : x <= y
                    IN  <<m>> \o SeqOfSet(S \ {m})

ChildRefs(parent, n, i) == SeqOfSet({j \in 1..n : parent[j] = i})

InputNode(parent, kinds, scheme, n, i) ==
    LET base == [id |-> JsNumber(IF scheme = "unique" THEN 10 + i ELSE 7),
                 name |-> JsString(<<i>>)]
        kids == ChildRefs(parent, n, i)
    IN  IF kids # <<>> THEN base @@ [children |-> JsArray(kids)]
        ELSE IF kinds[i] = "absent" THEN base
        ELSE IF kinds[i] = "undefined" THEN base @@ [children |-> JsUndefined]
        ELSE IF kinds[i] = "null" THEN base @@ [children |-> JsNull]
        ELSE IF kinds[i] = "empty" THEN base @@ [children |-> JsArray(<<>>)]
        ELSE base @@ [children |-> JsString(<<1>>)]

\* everything outside flattenTree at rest
NonTreeIdle ==
    /\ rbd = NoCall /\ inertia = NoCall /\ hist = <<>> /\ TreeUseIdle /\ AsyncIdle
    /\ UtilIdle

InitTree ==
    /\ NonTreeIdle
    /\ \E n \in 0..MaxNodes :
         \E parent \in [1..n -> 0..(n - 1)], kinds \in [1..n -> LeafKinds], scheme \in IdSchemes :
            /\ \A i \in 1..n : parent[i] < i
            /\ heap = [i \in 1..n |-> InputNode(parent, kinds, scheme, n, i)]
            /\ items \in {JsArray(ChildRefs(parent, n, 0))}
                            \cup (IF n = 0 THEN {JsUndefined} ELSE {})
    /\ input = [heap |-> heap, items |-> items]
    /\ tpc = "call"
    /\ stack = <<>>
    /\ flatTree = <<>>
    /\ origin = <<>>

\* flattenTree(items, 'id', 'children') is entered: flatTree = [], parentId = undefined,
\* depthLevel = 0
FlattenTreeCall ==
    /\ tpc = "call"
    /\ tpc' = "run"
    /\ stack' = <<Frame(items, JsUndefined, 0)>>
    /\ flatTree' = <<>>
    /\ origin' = <<>>
    /\ UNCHANGED <<heap, items, input, nonTreeVars>>

\* the innermost invocation and whether its forEach has an item left
Top == stack[Len(stack)]
HasNext(frame) == ArrayIsArray(frame.items) /\ frame.idx <= Len(frame.items.refs)

\* the forEach callback runs on the next item: the flat node is pushed and, when
\* the item holds a children array, flattenTree is entered for it
ForEachItem ==
    /\ tpc = "run"
    /\ HasNext(Top)
    /\ LET ref == Top.items.refs[Top.idx]
           item == heap[ref]
           hasChildrenArray == ArrayIsArray(Get(item, childrenKey))
           pushed == PushFlatNode(heap, ref, Top.parentId, Top.depthLevel)
           rest == [stack EXCEPT ![Len(stack)].idx = @ + 1]
       IN
       /\ heap' = pushed.heap
       /\ flatTree' = Append(flatTree, pushed.ref)
       /\ origin' = Append(origin, ref)
       /\ stack' = IF hasChildrenArray
                   THEN Append(rest, ChildFrame(item, Top.depthLevel))
                   ELSE rest
    /\ UNCHANGED <<items, input, tpc, nonTreeVars>>

\* the forEach of the innermost invocation is over (or items is undefined):
\* the invocation returns flatTree
FlattenTreeReturn ==
    /\ tpc = "run"
    /\ ~HasNext(Top)
    /\ stack' = SubSeq(stack, 1, Len(stack) - 1)
    /\ tpc' = IF Len(stack) = 1 THEN "done" ELSE "run"
    /\ UNCHANGED <<heap, items, input, flatTree, origin, nonTreeVars>>

NextTree == FlattenTreeCall \/ ForEachItem \/ FlattenTreeReturn

SpecTree == InitTree /\ [][NextTree]_vars

(***************************************************************************)
(* The input hierarchy, read from the heap as it was at the call.          *)
(***************************************************************************)
Range(seq) == {seq[i] : i \in DOMAIN seq}

\* the nodes of an array of nodes; none when the value is no array
NodesOf(x) == IF ArrayIsArray(x) THEN x.refs ELSE <<>>

TopLevel == NodesOf(input.items)
InputChildren(x) == NodesOf(Get(input.heap[x], childrenKey))

RECURSIVE Descendants(_)
Descendants(x) ==
    UNION {{c} \cup Descendants(c) : c \in Range(InputChildren(x))}

InputNodes == UNION {{r} \cup Descendants(r) : r \in Range(TopLevel)}

\* the arrays of the input: the items array and every children array
InputArrays == {TopLevel} \cup {InputChildren(x) : x \in InputNodes}

\* the flat node at index k, and the indices of the flat nodes emitted from x
FlatAt(k) == heap[flatTree[k]]
IndicesOf(x) == {k \in DOMAIN origin : origin[k] = x}
Pos(x) == CHOOSE k \in DOMAIN origin : origin[k] = x

\* C8: flattenTree returns one flat node per input node, in preorder (a node
\* before its descendants, its subtree contiguous, siblings in input order),
\* childCount being the number of immediate children (0 without a children array)
C8_OneFlatNodePerNodeInPreorder ==
    tpc = "done" =>
        /\ Len(flatTree) = Cardinality(InputNodes)
        /\ Len(origin) = Len(flatTree)
        /\ \A x \in InputNodes : Cardinality(IndicesOf(x)) = 1
        /\ \A k \in DOMAIN flatTree :
              /\ origin[k] \in InputNodes
              /\ FlatAt(k).id = input.heap[origin[k]].id
              /\ FlatAt(k).name = input.heap[origin[k]].name
              /\ FlatAt(k).childCount = Len(InputChildren(origin[k]))
        /\ \A x \in InputNodes :
              {Pos(y) : y \in Descendants(x)}
                  = (Pos(x) + 1)..(Pos(x) + Cardinality(Descendants(x)))
        /\ \A arr \in InputArrays : \A i, j \in DOMAIN arr :
              i < j => Pos(arr[i]) < Pos(arr[j])

\* a hierarchy of three nodes was flattened: a node with a child that is flattened
\* before a later sibling, and a node whose children field is a non-array value
C8_Witness ==
    /\ tpc = "done"
    /\ Len(flatTree) = 3
    /\ \E x \in InputNodes : Descendants(x) # {} /\ Pos(x) = 1
    /\ Len(TopLevel) = 2
    /\ \E x \in InputNodes : Get(input.heap[x], childrenKey).t = "string"

\* C9: a top-level node has parentId undefined and depthLevel 0; any other flat
\* node has the id of its parent as parentId, and the parent's flat node sits
\* at an earlier index with depthLevel one less
C9_ParentIdAndDepthLevel ==
    tpc = "done" =>
        \A k \in DOMAIN flatTree :
            IF origin[k] \in Range(TopLevel)
            THEN FlatAt(k).parentId = JsUndefined /\ FlatAt(k).depthLevel = 0
            ELSE \E j \in 1..(k - 1) :
                    /\ origin[k] \in Range(InputChildren(origin[j]))
                    /\ FlatAt(k).parentId = Get(input.heap[origin[j]], nodeIdKey)
                    /\ FlatAt(j).id = FlatAt(k).parentId
                    /\ FlatAt(j).depthLevel = FlatAt(k).depthLevel - 1

\* a chain of three nodes was flattened: the last flat node sits at depth 2
C9_Witness ==
    /\ tpc = "done"
    /\ Len(flatTree) = 3
    /\ FlatAt(3).depthLevel = 2
    /\ FlatAt(3).parentId = FlatAt(2).id
    /\ FlatAt(2).parentId = FlatAt(1).id
    /\ FlatAt(1).id # FlatAt(2).id

\* C10: after the call the items array and every input node are as they were,
\* and every flat node is a new object without the children field
C10_InputUnchanged ==
    tpc = "done" =>
        /\ items = input.items
        /\ \A r \in DOMAIN input.heap : heap[r] = input.heap[r]
        /\ \A k \in DOMAIN flatTree :
              /\ flatTree[k] \notin DOMAIN input.heap
              /\ childrenKey \notin DOMAIN FlatAt(k)

\* a node holding a children array of two nodes was flattened and still holds it
C10_Witness ==
    /\ tpc = "done"
    /\ \E r \in DOMAIN input.heap :
          /\ Len(InputChildren(r)) = 2
          /\ Get(heap[r], childrenKey) = JsArray(InputChildren(r))
          /\ \E k \in DOMAIN flatTree : origin[k] = r /\ childrenKey \notin DOMAIN FlatAt(k)

(***************************************************************************)
(* The uses of a flat tree: getTreeChildren and searchTree.  Both are      *)
(* synchronous, so one call runs at a time; a behaviour flattens one       *)
(* hierarchy and makes one call on the flat list.  The hierarchies searched*)
(* hold unique ids and no children field on a leaf; a node's value field   *)
(* is 'name'.  A string is a sequence of one-character strings.            *)
(***************************************************************************)
nodeValueKey == "name"

\* the value of a node's 'name' field; JsAbsent stands for a node without the field
JsAbsent == [t |-> "absent"]

SearchInputNode(parent, values, n, i) ==
    LET base == [id |-> JsNumber(10 + i)]
        named == IF values[i] = JsAbsent THEN base ELSE base @@ [name |-> values[i]]
        kids == ChildRefs(parent, n, i)
    IN  IF kids # <<>> THEN named @@ [children |-> JsArray(kids)] ELSE named

\* the hierarchies of at most MaxNodes nodes whose values are drawn from Values
InitForest(Values) ==
    /\ NonTreeIdle
    /\ \E n \in 0..MaxNodes :
         \E parent \in [1..n -> 0..(n - 1)], values \in [1..n -> Values] :
            /\ \A i \in 1..n : parent[i] < i
            /\ heap = [i \in 1..n |-> SearchInputNode(parent, values, n, i)]
            /\ items = JsArray(ChildRefs(parent, n, 0))
    /\ input = [heap |-> heap, items |-> items]
    /\ tpc = "call"
    /\ stack = <<>>
    /\ flatTree = <<>>
    /\ origin = <<>>

\* the flat list is there and no call on it was made yet
FlatTreeReady == tpc = "done" /\ search.pc = "idle" /\ gtc.pc = "idle"

\* the predicates handed to getTreeChildren: none, or one of two tests on a node
Predicates == {"none", "hasChildren", "isLeaf"}
Predicate(p, node) == IF p = "hasChildren" THEN node.childCount > 0 ELSE node.childCount = 0

\* seeded fault: a node passes when its parentId is undefined as well
getTreeChildrenOrRoots(flat, parentId, predicate) ==
    LET Test(ref) == /\ heap[ref].parentId \in {parentId, JsUndefined}
                     /\ (predicate = "none" \/ Predicate(predicate, heap[ref]))
    IN  SelectSeq(flat, Test)

\* flatTree.filter(node => node.parentId === parentId && (!predicate || predicate(node)))
getTreeChildren(flat, parentId, predicate) ==
    LET Test(ref) == /\ heap[ref].parentId = parentId
                     /\ (predicate = "none" \/ Predicate(predicate, heap[ref]))
    IN  SelectSeq(flat, Test)

\* the parentId arguments: the id of a flat node, undefined, or an id no node holds
ParentIds == {heap[flatTree[k]].id : k \in DOMAIN flatTree} \cup {JsUndefined, JsNumber(0)}

GetTreeChildrenCall ==
    /\ FlatTreeReady
    /\ \E parentId \in ParentIds, predicate \in Predicates :
          gtc' = [pc |-> "done", parentId |-> parentId, predicate |-> predicate,
                  result |-> getTreeChildren(flatTree, parentId, predicate)]
    /\ UNCHANGED <<nonTreeUseVars, search, matchedNodes, searchLog>>

(***************************************************************************)
(* Strings and words.                                                      *)
(***************************************************************************)
Space == " "
Tab == "\t"

\* String.prototype.toLowerCase on the characters of the model
LowerChar(c) == IF c = "A" THEN "a" ELSE IF c = "B" THEN "b" ELSE c
toLowerCase(str) == [i \in DOMAIN str |-> LowerChar(str[i])]

RECURSIVE split(_, _)
\* input.split(separator): the pieces between the separators, empty pieces included
split(str, separator) ==
    IF \A i \in DOMAIN str : str[i] # separator THEN <<str>>
    ELSE LET i == CHOOSE k \in DOMAIN str :
                     str[k] = separator /\ \A j \in 1..(k - 1) : str[j] # separator
         IN  <<SubSeq(str, 1, i - 1)>> \o split(SubSeq(str, i + 1, Len(str)), separator)

\* Boolean(piece) for a string: the empty string is falsy
NonEmpty(str) == str # <<>>

\* seeded fault: the pieces are kept as they are, the empty ones included
splitStringIntoWordsKeepEmpty(str) == split(str, Space)

\* seeded fault: a tab separates words as a space does
splitStringIntoWordsOnWhitespace(str) ==
    SelectSeq(split([i \in DOMAIN str |-> IF str[i] = Tab THEN Space ELSE str[i]], Space),
              NonEmpty)

\* input.split(' ').filter(Boolean)
splitStringIntoWords(str) == SelectSeq(split(str, Space), NonEmpty)

\* word.startsWith(searchWord)
startsWith(word, searchWord) ==
    /\ Len(searchWord) <= Len(word)
    /\ SubSeq(word, 1, Len(searchWord)) = searchWord

\* !nodeValue for a value that is undefined, null or a string
IsFalsy(value) == value \in {JsUndefined, JsNull, JsString(<<>>)}

\* seeded fault: one query word that starts a word of the value is enough
IsNodeMatchedAnyWord(searchWords, nodeValueWords) ==
    \E i \in DOMAIN searchWords : \E j \in DOMAIN nodeValueWords :
        startsWith(nodeValueWords[j], searchWords[i])

\* searchWords.every(searchWord => nodeValueWords.some(word => word.startsWith(searchWord)))
IsNodeMatched(searchWords, nodeValueWords) ==
    \A i \in DOMAIN searchWords : \E j \in DOMAIN nodeValueWords :
        startsWith(nodeValueWords[j], searchWords[i])

(***************************************************************************)
(* searchTree(flatTree, 'id', 'name', searchQuery).  The arrays hold       *)
(* references of flat nodes; flat-list indices count from 1.               *)
(***************************************************************************)
\* flatTree.reduce((result, node, nodeIndex) => { result[node[nodeIdKey]] = nodeIndex; ... }, {}):
\* a later node of the same id overwrites the index of an earlier one
NodeIdToIndexMap(flat) ==
    [id \in {Get(heap[flat[k]], nodeIdKey) : k \in DOMAIN flat} |->
        CHOOSE k \in DOMAIN flat :
            /\ Get(heap[flat[k]], nodeIdKey) = id
            /\ \A j \in DOMAIN flat : Get(heap[flat[j]], nodeIdKey) = id => j <= k]

\* what an insertion yields: the array after it, or the TypeError of reading
\* parentId of a parent node that is not in the flat list
Inserted(nodes) == [ok |-> TRUE, nodes |-> nodes]
Threw == [ok |-> FALSE, nodes |-> <<>>]

\* seeded fault: a matching top-level node brings none of its descendants
insertNestedItemsNone(targetNode, matched) == matched

RECURSIVE forEachNestedShallow(_, _, _)
\* seeded fault: the children are pushed without their own nested items
forEachNestedShallow(targetNode, k, matched) ==
    IF k > Len(flatTree) THEN matched
    ELSE LET node == heap[flatTree[k]]
         IN  IF node.parentId = Get(targetNode, nodeIdKey)
             THEN forEachNestedShallow(targetNode, k + 1, Append(matched, flatTree[k]))
             ELSE forEachNestedShallow(targetNode, k + 1, matched)

RECURSIVE insertNestedItems(_, _), forEachNested(_, _, _)
\* flatTree.forEach(node => { if (node.parentId === targetNode[nodeIdKey]) {
\*   matchedNodes.push(node); insertNestedItems(node); } }), from index k on
forEachNested(targetNode, k, matched) ==
    IF k > Len(flatTree) THEN matched
    ELSE LET node == heap[flatTree[k]]
         IN  IF node.parentId = Get(targetNode, nodeIdKey)
             THEN forEachNested(targetNode, k + 1,
                                insertNestedItems(node, Append(matched, flatTree[k])))
             ELSE forEachNested(targetNode, k + 1, matched)

\* insertNestedItems(targetNode): nothing for a node without children
insertNestedItems(targetNode, matched) ==
    IF targetNode.childCount = 0 THEN matched
    ELSE forEachNested(targetNode, 1, matched)

\* seeded fault: the parent is inserted without the ancestors above it
insertParentNodesParentOnly(map, targetNode, matched) ==
    IF targetNode.parentId \notin DOMAIN map THEN Threw
    ELSE Inserted(Append(matched, flatTree[map[targetNode.parentId]]))

RECURSIVE insertParentNodes(_, _, _)
\* insertParentNodes(targetNode): the ancestors first, then the parent unless the
\* last node of matchedNodes has the same parentId as targetNode
insertParentNodes(map, targetNode, matched) ==
    IF targetNode.parentId \notin DOMAIN map THEN Threw
    ELSE
    LET parentRef == flatTree[map[targetNode.parentId]]
        parentNode == heap[parentRef]
        above == IF parentNode.parentId # JsUndefined
                 THEN insertParentNodes(map, parentNode, matched)
                 ELSE Inserted(matched)
    IN  IF ~above.ok THEN Threw
        ELSE
        LET prevNodeParentId == IF Len(above.nodes) > 0
                                THEN heap[above.nodes[Len(above.nodes)]].parentId
                                ELSE JsNull
            shouldInsertParentNode ==
                prevNodeParentId = JsNull \/ prevNodeParentId # targetNode.parentId
        IN  IF shouldInsertParentNode THEN Inserted(Append(above.nodes, parentRef))
            ELSE above

\* the reduce callback on the node at index k: what it decides and the array it returns
ReduceCallback(searchWords, map, matched, k) ==
    LET ref == flatTree[k]
        node == heap[ref]
        nodeValue == Get(node, nodeValueKey)
        entry == [index |-> k, outcome |-> "evaluated", nodeValueWords |-> <<>>,
                  isNodeMatched |-> FALSE]
    IN  IF IsFalsy(nodeValue)
        THEN [log |-> [entry EXCEPT !.outcome = "no value"], matched |-> Inserted(matched)]
        ELSE IF \E i \in DOMAIN matched :
                    Get(heap[matched[i]], nodeIdKey) = Get(node, nodeIdKey)
        THEN [log |-> [entry EXCEPT !.outcome = "already matched"],
              matched |-> Inserted(matched)]
        ELSE
        LET nodeValueWords == splitStringIntoWords(toLowerCase(nodeValue.v))
            isNodeMatched == IsNodeMatched(searchWords, nodeValueWords)
            done == [entry EXCEPT !.nodeValueWords = nodeValueWords,
                                  !.isNodeMatched = isNodeMatched]
        IN  IF ~isNodeMatched THEN [log |-> done, matched |-> Inserted(matched)]
            ELSE IF node.parentId = JsUndefined
            THEN [log |-> done,
                  matched |-> Inserted(insertNestedItems(node, Append(matched, ref)))]
            ELSE LET parents == insertParentNodes(map, node, matched)
                 IN  [log |-> done,
                      matched |-> IF parents.ok THEN Inserted(Append(parents.nodes, ref))
                                  ELSE Threw]

\* searchTree is entered: the query is split into words; without a word the
\* call returns flatTree itself
SearchTreeCall(searchQuery) ==
    /\ FlatTreeReady
    /\ LET searchWords == splitStringIntoWords(toLowerCase(searchQuery))
       IN  search' = IF searchWords = <<>>
                     THEN [pc |-> "done", searchQuery |-> searchQuery,
                           searchWords |-> searchWords, result |-> flatTree]
                     ELSE [pc |-> "reduce", searchQuery |-> searchQuery,
                           searchWords |-> searchWords,
                           nodeIdToIndexMap |-> NodeIdToIndexMap(flatTree),
                           nodeIndex |-> 1]
    /\ UNCHANGED <<nonTreeUseVars, matchedNodes, searchLog, gtc>>

\* the reduce callback runs on the next node of flatTree
ReduceNode ==
    /\ search.pc = "reduce"
    /\ search.nodeIndex <= Len(flatTree)
    /\ LET step == ReduceCallback(search.searchWords, search.nodeIdToIndexMap,
                                  matchedNodes, search.nodeIndex)
       IN  /\ searchLog' = Append(searchLog, step.log)
           /\ matchedNodes' = IF step.matched.ok THEN step.matched.nodes ELSE matchedNodes
           /\ search' = IF step.matched.ok THEN [search EXCEPT !.nodeIndex = @ + 1]
                        ELSE [search EXCEPT !.pc = "threw"]
    /\ UNCHANGED <<nonTreeUseVars, gtc>>

\* the reduce is over: searchTree returns matchedNodes
SearchTreeReturn ==
    /\ search.pc = "reduce"
    /\ search.nodeIndex > Len(flatTree)
    /\ search' = [pc |-> "done", searchQuery |-> search.searchQuery,
                  searchWords |-> search.searchWords, result |-> matchedNodes]
    /\ UNCHANGED <<nonTreeUseVars, matchedNodes, searchLog, gtc>>

\* the values of the nodes searched: no value, a value the query 'a' matches, one it does not
ForestValues == {JsNull, JsString(<<"A", "b">>), JsString(<<"b">>)}
ForestQueries == {<<>>, <<Space>>, <<Space, Space>>, <<"a">>}

InitSearch == InitForest(ForestValues)

NextSearch ==
    \/ NextTree
    \/ GetTreeChildrenCall
    \/ \E searchQuery \in ForestQueries : SearchTreeCall(searchQuery)
    \/ ReduceNode
    \/ SearchTreeReturn

SpecSearch == InitSearch /\ [][NextSearch]_vars

(***************************************************************************)
(* The flat list against the hierarchy it was made from.                   *)
(***************************************************************************)
\* the input node a flat node was emitted from
OriginOf(ref) == origin[CHOOSE k \in DOMAIN flatTree : flatTree[k] = ref]

\* the elements of flat at the indices of the set sel, by increasing index
Subsequence(flat, sel) == [i \in 1..Cardinality(sel) |-> flat[SeqOfSet(sel)[i]]]

\* C11: getTreeChildren returns the nodes of flatTree whose parentId is the one
\* given and that pass the predicate, when there is one, in the order of
\* flatTree; for the id of a node these are direct children of that node
\* only, and all of them (childCount many) without a predicate
C11_GetTreeChildrenDirectChildren ==
    gtc.pc = "done" =>
        /\ gtc.result = Subsequence(flatTree,
              {k \in DOMAIN flatTree :
                  /\ FlatAt(k).parentId = gtc.parentId
                  /\ (gtc.predicate = "none" \/ Predicate(gtc.predicate, FlatAt(k)))})
        /\ \A k \in DOMAIN flatTree :
              FlatAt(k).id = gtc.parentId =>
                  /\ \A i \in DOMAIN gtc.result :
                        OriginOf(gtc.result[i]) \in Range(InputChildren(origin[k]))
                  /\ gtc.predicate = "none" =>
                        /\ {OriginOf(gtc.result[i]) : i \in DOMAIN gtc.result}
                               = Range(InputChildren(origin[k]))
                        /\ Len(gtc.result) = FlatAt(k).childCount

\* the two children of a node that has a grandchild too were returned
C11_Witness ==
    /\ gtc.pc = "done"
    /\ gtc.predicate = "none"
    /\ Len(gtc.result) = 2
    /\ \E k \in DOMAIN flatTree :
          /\ FlatAt(k).id = gtc.parentId
          /\ Cardinality(Descendants(origin[k])) = 3

\* the query holds no word: it is empty or made of spaces only
NoWords(str) == \A i \in DOMAIN str : str[i] = Space

\* C12: for a query without words searchTree returns flatTree as it is, the same
\* nodes in the same order, whatever flatTree holds
C12_NoWordsReturnsFlatTree ==
    (search.pc # "idle" /\ NoWords(search.searchQuery)) =>
        /\ search.pc = "done"
        /\ search.result = flatTree
        /\ Len(search.result) = Cardinality(InputNodes)
        /\ \A k \in DOMAIN search.result :
              /\ heap[search.result[k]].id = input.heap[origin[k]].id
              /\ Get(heap[search.result[k]], nodeValueKey)
                     = Get(input.heap[origin[k]], nodeValueKey)

\* a query of one space returned a flat list of three nodes, one without a value
C12_Witness ==
    /\ search.pc = "done"
    /\ search.searchQuery = <<Space>>
    /\ Len(search.result) = 3
    /\ \E k \in DOMAIN search.result : Get(heap[search.result[k]], nodeValueKey) = JsNull

(***************************************************************************)
(* Searching by words: a hierarchy of one node whose value is any string   *)
(* of at most MaxValueLen characters (or no value), and any query of at    *)
(* most MaxQueryLen characters.                                            *)
(***************************************************************************)
MaxValueLen == 3
MaxQueryLen == 3

StringsUpTo(chars, n) == UNION {[1..k -> chars] : k \in 0..n}

WordValues == {JsAbsent, JsUndefined, JsNull}
                 \cup {JsString(str) : str \in StringsUpTo({"A", "b", Space, Tab}, MaxValueLen)}
WordQueries == StringsUpTo({"a", "B", Space}, MaxQueryLen)

InitWords ==
    /\ NonTreeIdle
    /\ \E value \in WordValues :
          heap = [i \in {1} |-> SearchInputNode(<<0>>, <<value>>, 1, 1)]
    /\ items = JsArray(<<1>>)
    /\ input = [heap |-> heap, items |-> items]
    /\ tpc = "call"
    /\ stack = <<>>
    /\ flatTree = <<>>
    /\ origin = <<>>

NextWords ==
    \/ NextTree
    \/ \E searchQuery \in WordQueries : SearchTreeCall(searchQuery)
    \/ ReduceNode
    \/ SearchTreeReturn

SpecWords == InitWords /\ [][NextWords]_vars

\* the words of a string, read off the string: its maximal runs of characters
\* that are no separator, from left to right
IsRun(str, separators, i, j) ==
    /\ i <= j
    /\ \A k \in i..j : str[k] \notin separators
    /\ (i = 1 \/ str[i - 1] \in separators)
    /\ (j = Len(str) \/ str[j + 1] \in separators)

RunStarts(str, separators) ==
    {i \in DOMAIN str : \E j \in DOMAIN str : IsRun(str, separators, i, j)}

RunsOf(str, separators) ==
    [n \in 1..Cardinality(RunStarts(str, separators)) |->
        LET i == SeqOfSet(RunStarts(str, separators))[n]
            j == CHOOSE k \in DOMAIN str : IsRun(str, separators, i, k)
        IN  SubSeq(str, i, j)]

\* the two characters are the same letter, in whatever case
SameLetter(c, d) == LowerChar(c) = LowerChar(d)

\* word is, case-insensitively, a prefix of other
IsPrefixOf(word, other) ==
    /\ Len(word) <= Len(other)
    /\ \A i \in DOMAIN word : SameLetter(word[i], other[i])

\* the value is a non-empty string and every word of the query starts a word of it
DirectMatch(searchQuery, value) ==
    /\ value.t = "string"
    /\ value.v # <<>>
    /\ \A q \in Range(RunsOf(searchQuery, {Space})) :
          \E w \in Range(RunsOf(value.v, {Space})) : IsPrefixOf(q, w)

\* C13: with a query that holds a word, a node is a direct match exactly when
\* its value is a non-empty string and every query word is, in whatever case,
\* a prefix of a word of the value; a node whose value is null, undefined or
\* the empty string is no direct match.  The one node searched is returned
\* exactly when it is a direct match.
C13_DirectMatchIsPrefixOfEveryQueryWord ==
    /\ \A n \in DOMAIN searchLog :
          LET value == Get(FlatAt(searchLog[n].index), nodeValueKey)
          IN  /\ searchLog[n].isNodeMatched <=> DirectMatch(search.searchQuery, value)
              /\ value \in {JsUndefined, JsNull, JsString(<<>>)}
                    => ~searchLog[n].isNodeMatched
    /\ (search.pc = "done" /\ ~NoWords(search.searchQuery)) =>
          /\ Len(searchLog) = Len(flatTree)
          /\ search.result = IF DirectMatch(search.searchQuery,
                                            Get(FlatAt(1), nodeValueKey))
                             THEN flatTree ELSE <<>>

\* the query 'a B' found the node of value 'b A': each query word starts
\* another word of the value, in the other case
C13_Witness ==
    /\ search.pc = "done"
    /\ search.searchQuery = <<"a", Space, "B">>
    /\ Get(FlatAt(1), nodeValueKey) = JsString(<<"b", Space, "A">>)
    /\ searchLog[1].isNodeMatched
    /\ search.result = flatTree

\* the string in lower case
Lowered(str) == [i \in DOMAIN str |-> LowerChar(str[i])]

\* the words searchTree worked with are the runs of the lowered query and of
\* the lowered value of every node it evaluated, for the given separators
WordsAreRuns(separators) ==
    /\ search.pc # "idle" =>
          search.searchWords = RunsOf(Lowered(search.searchQuery), separators)
    /\ \A n \in DOMAIN searchLog :
          searchLog[n].outcome = "evaluated" =>
              searchLog[n].nodeValueWords
                  = RunsOf(Lowered(Get(FlatAt(searchLog[n].index), nodeValueKey).v),
                           separators)

\* C19 as stated: the query and each node value are split into lower-case
\* words at whitespace, so that no whitespace character is part of a word
C19_WordsSplitOnWhitespace == WordsAreRuns({Space, Tab})

\* C19: the query and each node value are split into lower-case words at the
\* space character: a run of spaces separates two words, no word is empty and
\* no word holds a space or an upper-case letter
C19_WordsSplitOnSpaces ==
    /\ WordsAreRuns({Space})
    /\ \A n \in DOMAIN searchLog : \A w \in Range(searchLog[n].nodeValueWords) :
          /\ w # <<>>
          /\ \A i \in DOMAIN w : w[i] \notin {Space, "A", "B"}

\* the value 'A<tab>b' was split into the one word 'a<tab>b', which the query
\* 'a' matched
C19_Witness ==
    /\ search.pc = "done"
    /\ search.searchWords = <<(<<"a">>)>>
    /\ Len(searchLog) = 1
    /\ Get(FlatAt(1), nodeValueKey) = JsString(<<"A", Tab, "b">>)
    /\ searchLog[1].nodeValueWords = <<(<<"a", Tab, "b">>)>>
    /\ searchLog[1].isNodeMatched

(***************************************************************************)
(* The result of searchTree against the hierarchy that was flattened.      *)
(***************************************************************************)
\* a search with a query that holds a word has returned
Searched == search.pc = "done" /\ ~NoWords(search.searchQuery)

\* the input nodes of the returned flat nodes, in the order of the result
ResultOrigins == [i \in DOMAIN search.result |-> OriginOf(search.result[i])]
ResultSet == Range(ResultOrigins)
FirstIn(x) == CHOOSE i \in DOMAIN ResultOrigins :
                 ResultOrigins[i] = x /\ \A j \in 1..(i - 1) : ResultOrigins[j] # x

\* the input nodes the query matches directly, and the ancestors of a node
Matching == {x \in InputNodes :
                DirectMatch(search.searchQuery, Get(input.heap[x], nodeValueKey))}
Roots == Range(TopLevel)
Ancestors(x) == {y \in InputNodes : x \in Descendants(y)}

\* C14: every ancestor of a directly matching non-root node is in the result
\* and comes before the node, an outer ancestor before an inner one; a chain
\* of four nodes in which only the last one matches is returned whole, in order
C14_AncestorsBeforeMatch ==
    Searched =>
        /\ \A x \in Matching \ Roots :
              /\ x \in ResultSet
              /\ \A y \in Ancestors(x) :
                    /\ y \in ResultSet
                    /\ FirstIn(y) < FirstIn(x)
                    /\ \A z \in Ancestors(x) \cap Descendants(y) : FirstIn(y) < FirstIn(z)
        /\ (/\ Len(flatTree) = 4
            /\ FlatAt(4).depthLevel = 3
            /\ Matching = {origin[4]}) => search.result = flatTree

\* in the chain root -> A -> B -> C only C matched and the result is [root, A, B, C]
C14_Witness ==
    /\ Searched
    /\ Len(flatTree) = 4
    /\ FlatAt(4).depthLevel = 3
    /\ Matching = {origin[4]}
    /\ Len(search.result) = 4
    /\ Get(FlatAt(1), nodeValueKey) = JsNull

\* C15: a directly matching root is in the result, followed at once by all its
\* descendants in the order of the flat list, matching or not
C15_MatchingRootBringsSubtree ==
    Searched =>
        \A x \in Matching \cap Roots :
            \E i \in DOMAIN ResultOrigins :
                /\ i + Cardinality(Descendants(x)) <= Len(ResultOrigins)
                /\ \A d \in 0..Cardinality(Descendants(x)) :
                      ResultOrigins[i + d] = origin[Pos(x) + d]

\* a matching root was returned with its child and grandchild, neither of which
\* matches, and a root that does not match was left out
C15_Witness ==
    /\ Searched
    /\ Len(flatTree) = 4
    /\ Matching = {origin[1]}
    /\ FlatAt(3).depthLevel = 2
    /\ FlatAt(4).depthLevel = 0
    /\ ResultOrigins = SubSeq(origin, 1, 3)

\* C16 as stated: no node of flatTree is twice in the result of searchTree
C16_EachNodeAtMostOnce ==
    search.pc = "done" =>
        \A i, j \in DOMAIN search.result : i # j => search.result[i] # search.result[j]

\* C17 as stated: the flat-list indices of the returned nodes increase strictly
\* along the result
C17_ResultInFlatOrder ==
    search.pc = "done" =>
        \A i, j \in DOMAIN ResultOrigins :
            i < j => Pos(ResultOrigins[i]) < Pos(ResultOrigins[j])

\* C18: the nodes of the result are the directly matching nodes, the ancestors
\* of the directly matching non-root nodes and the descendants of the directly
\* matching roots, and no other node
C18_ResultSetIsMatchesAncestorsSubtrees ==
    Searched =>
        ResultSet = Matching
                      \cup UNION {Ancestors(x) : x \in Matching \ Roots}
                      \cup UNION {Descendants(x) : x \in Matching \cap Roots}

\* a non-root node matched: its parent was returned, its child, which does not
\* match, was not, and neither was a root that does not match
C18_Witness ==
    /\ Searched
    /\ Len(flatTree) = 4
    /\ \E x \in Matching \ Roots :
          /\ Descendants(x) # {}
          /\ Descendants(x) \cap ResultSet = {}
          /\ Ancestors(x) \subseteq ResultSet
    /\ \E r \in Roots : r \notin ResultSet

(***************************************************************************)
(* retry(task, { maxAttempts, delayMs, backoff, onRetry }) and one call of *)
(* the function it returns.  The task is the environment: each call of it  *)
(* throws, or returns a promise that later resolves or rejects.  onRetry   *)
(* is absent, returns, or throws.  The options are given; their defaults   *)
(* are not modelled.                                                       *)
(***************************************************************************)
MaxAttempts == 3

Values == {"V1", "V2"}
Errors == {"E1", "E2"}
Args == {"x", "y"}
DelaysMs == {0, 300}
OnRetries == {"absent", "returns", "throws"}
OnRetryError == "error thrown by onRetry"
UndefinedError == "undefined"

Pending == [kind |-> "pending"]
Resolved(value) == [kind |-> "resolved", value |-> value]
Rejected(error) == [kind |-> "rejected", error |-> error]

\* seeded fault: the loop runs once more than maxAttempts
LoopConditionOneMore(attempt, maxAttempts) == attempt <= maxAttempts + 1

\* attempt <= maxAttempts
LoopCondition(attempt, maxAttempts) == attempt <= maxAttempts

InitRetry ==
    /\ rbd = NoCall /\ inertia = NoCall /\ hist = <<>>
    /\ TreeIdle /\ TreeUseIdle /\ UtilIdle
    /\ rt = [pc |-> "idle"]
    /\ rtLog = <<>>

\* retry(task, options) is called and the function it returns is called with args:
\* let lastError; attempt = 1
RetryCall ==
    /\ rt.pc = "idle"
    /\ \E maxAttempts \in 0..MaxAttempts, delayMs \in DelaysMs, backoff \in BOOLEAN,
          onRetry \in OnRetries, args \in Args :
          rt' = [pc |-> "loop", maxAttempts |-> maxAttempts, delayMs |-> delayMs,
                 backoff |-> backoff, onRetry |-> onRetry, args |-> args,
                 attempt |-> 1, lastError |-> UndefinedError, outcome |-> Pending]
    /\ UNCHANGED <<nonAsyncVars, rtLog>>

\* seeded fault: the exponent of the backoff is the attempt number
DelayTimeDoubled(backoff, delayMs, attempt) ==
    IF backoff THEN delayMs * 2 ^ attempt ELSE delayMs

\* backoff ? delayMs * 2 ** (attempt - 1) : delayMs
DelayTime(backoff, delayMs, attempt) ==
    IF backoff THEN delayMs * 2 ^ (attempt - 1) ELSE delayMs

\* catch (e): lastError = e; before the last attempt onRetry is called and the
\* delay is awaited, after it the loop goes on
Catch(r, log, e) ==
    LET failed == [r EXCEPT !.lastError = e]
    IN  IF r.attempt < r.maxAttempts
        THEN IF r.onRetry = "throws"
             THEN [rt |-> [failed EXCEPT !.pc = "done", !.outcome = Rejected(OnRetryError)],
                   log |-> Append(log, [ev |-> "onRetry", attempt |-> r.attempt, error |-> e])]
             ELSE LET delayTime == DelayTime(r.backoff, r.delayMs, r.attempt)
                      called == IF r.onRetry = "returns"
                                THEN Append(log, [ev |-> "onRetry", attempt |-> r.attempt,
                                                  error |-> e])
                                ELSE log
                  IN  [rt |-> [failed EXCEPT !.pc = "delay"],
                       log |-> Append(called, [ev |-> "delay", attempt |-> r.attempt,
                                               ms |-> delayTime])]
        ELSE [rt |-> [failed EXCEPT !.pc = "loop", !.attempt = @ + 1], log |-> log]

\* the loop condition holds: task(...args) is called; it returns a promise, which
\* is awaited, or throws, which is caught
Attempt ==
    /\ rt.pc = "loop"
    /\ LoopCondition(rt.attempt, rt.maxAttempts)
    /\ LET called == Append(rtLog, [ev |-> "call", attempt |-> rt.attempt,
                                    args |-> rt.args])
       IN  \/ /\ rt' = [rt EXCEPT !.pc = "task"]
              /\ rtLog' = called
           \/ \E e \in Errors :
                 LET thrown == Append(called, [ev |-> "throw", attempt |-> rt.attempt,
                                               error |-> e])
                 IN  /\ rt' = Catch(rt, thrown, e).rt
                     /\ rtLog' = Catch(rt, thrown, e).log
    /\ UNCHANGED nonAsyncVars

\* the promise of the task resolves: return await task(...args)
TaskResolves ==
    /\ rt.pc = "task"
    /\ \E v \in Values :
          /\ rt' = [rt EXCEPT !.pc = "done", !.outcome = Resolved(v)]
          /\ rtLog' = Append(rtLog, [ev |-> "resolve", attempt |-> rt.attempt, value |-> v])
    /\ UNCHANGED nonAsyncVars

\* the promise of the task rejects: the await throws and the error is caught
TaskRejects ==
    /\ rt.pc = "task"
    /\ \E e \in Errors :
          LET rejected == Append(rtLog, [ev |-> "reject", attempt |-> rt.attempt,
                                         error |-> e])
          IN  /\ rt' = Catch(rt, rejected, e).rt
              /\ rtLog' = Catch(rt, rejected, e).log
    /\ UNCHANGED nonAsyncVars

\* the timer of delay(delayTime) fires: attempt++
DelayElapses ==
    /\ rt.pc = "delay"
    /\ rt' = [rt EXCEPT !.pc = "loop", !.attempt = @ + 1]
    /\ UNCHANGED <<nonAsyncVars, rtLog>>

\* the loop condition fails: throw lastError
ThrowLastError ==
    /\ rt.pc = "loop"
    /\ ~LoopCondition(rt.attempt, rt.maxAttempts)
    /\ rt' = [rt EXCEPT !.pc = "done", !.outcome = Rejected(rt.lastError)]
    /\ UNCHANGED <<nonAsyncVars, rtLog>>

NextRetry ==
    RetryCall \/ Attempt \/ TaskResolves \/ TaskRejects \/ DelayElapses \/ ThrowLastError

SpecRetry == InitRetry /\ [][NextRetry]_vars

\* the positions in the history of the events of the given kinds
EventsOf(kinds) == {i \in DOMAIN rtLog : rtLog[i].ev \in kinds}
TaskCalls == EventsOf({"call"})
TaskFailures == EventsOf({"reject", "throw"})
TaskSuccesses == EventsOf({"resolve"})
LastOf(S) == CHOOSE i \in S : \A j \in S : j <= i

\* C20: for maxAttempts >= 1 a call makes at most maxAttempts task calls, all
\* with the arguments of the call, each one after the one before has failed;
\* when a task call resolves the call resolves with its value and nothing
\* follows; when maxAttempts task calls have failed no other is made and the
\* call rejects with the error of the last one.  A task call that throws
\* counts as one that rejects.
C20_RetryAtMostMaxAttempts ==
    (rt.pc # "idle" /\ rt.maxAttempts >= 1) =>
        /\ Cardinality(TaskCalls) <= rt.maxAttempts
        /\ \A i \in TaskCalls : rtLog[i].args = rt.args
        /\ \A i, j \in TaskCalls :
              i < j => /\ rtLog[i].attempt < rtLog[j].attempt
                       /\ \E k \in TaskFailures :
                             i < k /\ k < j /\ rtLog[k].attempt = rtLog[i].attempt
        /\ \A k \in TaskSuccesses :
              /\ k = Len(rtLog)
              /\ rt.pc = "done"
              /\ rt.outcome = Resolved(rtLog[k].value)
        /\ rt.outcome.kind = "resolved" => TaskSuccesses # {}
        /\ Cardinality(TaskFailures) = rt.maxAttempts =>
              /\ rt.pc \in {"loop", "done"}
              /\ LastOf(TaskFailures) = Len(rtLog)
              /\ rt.lastError = rtLog[LastOf(TaskFailures)].error
              /\ rt.pc = "done" => rt.outcome = Rejected(rt.lastError)

\* with maxAttempts = 3 the first task call rejected with E1 and the second
\* resolved with V2: the call resolved with V2 after two task calls
C20_Witness ==
    /\ rt.pc = "done"
    /\ rt.maxAttempts = 3
    /\ rt.outcome = Resolved("V2")
    /\ Cardinality(TaskCalls) = 2
    /\ \E k \in TaskFailures : rtLog[k].ev = "reject" /\ rtLog[k].error = "E1"

RECURSIVE TimesTwo(_, _)
\* ms doubled n times
TimesTwo(ms, n) == IF n = 0 THEN ms ELSE TimesTwo(ms + ms, n - 1)

\* what lies between the failure of attempt k and the next task call: the call
\* of onRetry with (k, e), when there is an onRetry, and then one delay
BetweenAttempts(k, e) ==
    (IF rt.onRetry = "absent" THEN <<>>
     ELSE <<[ev |-> "onRetry", attempt |-> k, error |-> e]>>)
    \o <<[ev |-> "delay", attempt |-> k,
          ms |-> IF rt.backoff THEN TimesTwo(rt.delayMs, k - 1) ELSE rt.delayMs]>>

\* C21: between the failure of attempt k < maxAttempts and attempt k + 1,
\* onRetry is called once with (k, the error of attempt k) and then one delay
\* is awaited, of delayMs * 2^(k-1) with backoff and of delayMs without; after
\* the failure of attempt maxAttempts there is no call of onRetry and no delay
C21_OnRetryThenDelayBetweenAttempts ==
    rt.pc # "idle" =>
        /\ \A i \in TaskFailures, j \in TaskCalls :
              (i < j /\ rtLog[j].attempt = rtLog[i].attempt + 1) =>
                  /\ rtLog[i].attempt < rt.maxAttempts
                  /\ SubSeq(rtLog, i + 1, j - 1)
                         = BetweenAttempts(rtLog[i].attempt, rtLog[i].error)
        /\ \A i \in TaskFailures :
              rtLog[i].attempt >= rt.maxAttempts => i = Len(rtLog)
        /\ \A i \in EventsOf({"onRetry", "delay"}) :
              /\ i > 1
              /\ rtLog[i].attempt < rt.maxAttempts
              /\ rtLog[i].ev = "onRetry" => i - 1 \in TaskFailures
              /\ rtLog[i].ev = "delay" =>
                    \E f \in TaskFailures :
                        /\ rtLog[f].attempt = rtLog[i].attempt
                        /\ f \in {i - 1, i - 2}

\* with maxAttempts = 3, delayMs = 300 and backoff, attempts 1 and 2 failed:
\* onRetry(2, E2) was followed by a delay of 600 ms and by attempt 3
C21_Witness ==
    /\ rt.pc = "task"
    /\ rt.attempt = 3
    /\ rt.backoff
    /\ rt.delayMs = 300
    /\ rt.onRetry = "returns"
    /\ \E i \in DOMAIN rtLog :
          /\ i + 2 = Len(rtLog)
          /\ rtLog[i] = [ev |-> "onRetry", attempt |-> 2, error |-> "E2"]
          /\ rtLog[i + 1] = [ev |-> "delay", attempt |-> 2, ms |-> 600]

(***************************************************************************)
(* once(fn) and the calls of the function it returns.  fn is the           *)
(* environment: an execution of it may call the wrapper again, and it      *)
(* returns a value or throws.  The closure holds called and result; the    *)
(* executions of fn in progress are a stack of the arguments they got.     *)
(***************************************************************************)
MaxCalls == 4

OnceArgs == {"x", "y"}
OnceValues == {"V1", "V2"}
JsUndefinedValue == "undefined"

\* seeded fault: fn is executed whether or not it was called before
ShouldExecuteAlways(called) == TRUE

\* if (!called)
ShouldExecute(called) == ~called

InitOnce ==
    /\ rbd = NoCall /\ inertia = NoCall /\ hist = <<>>
    /\ TreeIdle /\ TreeUseIdle /\ AsyncIdle
    /\ FilterIdle /\ TimeoutIdle /\ SequentialIdle /\ FocusIdle
    /\ onceCall = NotCalled

\* once(fn): let called = false; let result
OnceCreate ==
    /\ onceCall.pc = "idle"
    /\ onceCall' = [pc |-> "ready", called |-> FALSE, result |-> JsUndefinedValue,
                    executing |-> <<>>, calls |-> 0, log |-> <<>>]
    /\ UNCHANGED nonOnceVars

\* the wrapper is called, by the program or by fn while it executes: when fn
\* was not called, called = true and fn is entered; otherwise result is returned
WrapperCall ==
    /\ onceCall.pc = "ready"
    /\ onceCall.calls < MaxCalls
    /\ \E args \in OnceArgs :
          onceCall' =
              IF ShouldExecute(onceCall.called)
              THEN [onceCall EXCEPT
                        !.called = TRUE,
                        !.calls = @ + 1,
                        !.executing = Append(@, args),
                        !.log = Append(@, [ev |-> "fn entered", args |-> args])]
              ELSE [onceCall EXCEPT
                        !.calls = @ + 1,
                        !.log = Append(@, [ev |-> "returned", args |-> args,
                                           value |-> onceCall.result,
                                           within |-> Len(onceCall.executing)])]
    /\ UNCHANGED nonOnceVars

\* the innermost execution of fn returns: result = fn.apply(this, args); return result
FnReturns ==
    /\ onceCall.pc = "ready"
    /\ onceCall.executing # <<>>
    /\ \E v \in OnceValues :
          LET n == Len(onceCall.executing)
              args == onceCall.executing[n]
          IN  onceCall' = [onceCall EXCEPT
                  !.result = v,
                  !.executing = SubSeq(@, 1, n - 1),
                  !.log = @ \o <<[ev |-> "fn returned", args |-> args, value |-> v],
                                 [ev |-> "returned", args |-> args, value |-> v,
                                  within |-> n - 1]>>]
    /\ UNCHANGED nonOnceVars

\* the innermost execution of fn throws: the wrapper call throws, result is not assigned
FnThrows ==
    /\ onceCall.pc = "ready"
    /\ onceCall.executing # <<>>
    /\ LET n == Len(onceCall.executing)
       IN  onceCall' = [onceCall EXCEPT
               !.executing = SubSeq(@, 1, n - 1),
               !.log = Append(@, [ev |-> "fn threw", args |-> onceCall.executing[n]])]
    /\ UNCHANGED nonOnceVars

NextOnce == OnceCreate \/ WrapperCall \/ FnReturns \/ FnThrows

SpecOnce == InitOnce /\ [][NextOnce]_vars

OnceEvents(kind) ==
    IF onceCall.pc = "idle" THEN {}
    ELSE {i \in DOMAIN onceCall.log : onceCall.log[i].ev = kind}

\* C22: over the calls of the function once returned, fn is executed at most
\* once, also when that execution throws or calls the wrapper again, and every
\* call made after the first execution has returned yields the value that
\* execution returned
C22_FnExecutedAtMostOnce ==
    /\ Cardinality(OnceEvents("fn entered")) <= 1
    /\ \A i \in OnceEvents("fn returned"), j \in OnceEvents("returned") :
          i < j => onceCall.log[j].value = onceCall.log[i].value

\* fn, called with x, called the wrapper, which returned undefined; fn then
\* returned V1, and a later call with y returned V1
C22_Witness ==
    /\ onceCall.pc = "ready"
    /\ Len(onceCall.log) = 5
    /\ onceCall.log[1] = [ev |-> "fn entered", args |-> "x"]
    /\ onceCall.log[2].value = JsUndefinedValue
    /\ onceCall.log[2].within = 1
    /\ onceCall.log[3] = [ev |-> "fn returned", args |-> "x", value |-> "V1"]
    /\ onceCall.log[5] = [ev |-> "returned", args |-> "y", value |-> "V1", within |-> 0]

(***************************************************************************)
(* filterParallel(array, predicate) and then filterSequential(array,       *)
(* predicate), awaited one after the other.  The predicate is the          *)
(* environment: for the item at each index it resolves true, resolves      *)
(* false, or rejects, the same way in both calls.                          *)
(***************************************************************************)
MaxItems == 3

JsBoolean(b) == [t |-> "boolean", v |-> b]
ItemValues == {JsNumber(0), JsNumber(1), JsNull, JsString(<<"a">>)}
Verdicts == {"true", "false", "rejects"}

\* Boolean(value)
ToBoolean(value) ==
    IF value.t = "boolean" THEN value.v
    ELSE IF value.t = "number" THEN value.v # 0
    ELSE IF value.t = "string" THEN value.v # <<>>
    ELSE value.t \notin {"undefined", "null"}

\* compact(array): array.filter(Boolean)
compact(array) == SelectSeq(array, ToBoolean)

\* (await predicate(item, index, array)) ? item : false
KeptOrFalse(item, verdict) == IF verdict = "true" THEN item ELSE JsBoolean(FALSE)

InitFilter ==
    /\ rbd = NoCall /\ inertia = NoCall /\ hist = <<>>
    /\ TreeIdle /\ TreeUseIdle /\ AsyncIdle
    /\ OnceIdle /\ TimeoutIdle /\ SequentialIdle /\ FocusIdle
    /\ filt = NotCalled

\* filterParallel is called: runParallel maps the callback over the array, so the
\* predicate is invoked for every item, and Promise.all waits for the promises
FilterParallelCall ==
    /\ filt.pc = "idle"
    /\ \E n \in 0..MaxItems :
          \E array \in [1..n -> ItemValues], verdicts \in [1..n -> Verdicts] :
              filt' = [pc |-> "parallel", array |-> array, verdicts |-> verdicts,
                       pending |-> 1..n,
                       results |-> [i \in 1..n |-> JsUndefined],
                       parallel |-> Pending,
                       i |-> 1, kept |-> <<>>, sequential |-> Pending]
    /\ UNCHANGED nonFilterVars

\* the predicate promise of one item settles: the callback resolves with the item
\* or false, or rejects, and the first rejection rejects Promise.all
PredicateSettles ==
    /\ filt.pc # "idle"
    /\ \E i \in filt.pending :
          filt' = IF filt.verdicts[i] = "rejects"
                  THEN [filt EXCEPT
                            !.pending = @ \ {i},
                            !.parallel = IF @ = Pending THEN Rejected(i) ELSE @]
                  ELSE [filt EXCEPT
                            !.pending = @ \ {i},
                            !.results[i] = KeptOrFalse(filt.array[i], filt.verdicts[i])]
    /\ UNCHANGED nonFilterVars

\* every callback promise has resolved: Promise.all resolves with the results in
\* index order and filterParallel returns compact(results)
FilterParallelReturn ==
    /\ filt.pc = "parallel"
    /\ filt.parallel = Pending
    /\ filt.pending = {}
    /\ filt' = [filt EXCEPT !.parallel = Resolved(compact(filt.results))]
    /\ UNCHANGED nonFilterVars

\* filterParallel has settled: filterSequential is called, results = [], i = 0
FilterSequentialCall ==
    /\ filt.pc = "parallel"
    /\ filt.parallel # Pending
    /\ filt' = [filt EXCEPT !.pc = "sequential"]
    /\ UNCHANGED nonFilterVars

\* one turn of the loop: the predicate of item i is awaited; the item is pushed
\* when it resolved true; a rejection rejects filterSequential
FilterSequentialStep ==
    /\ filt.pc = "sequential"
    /\ filt.i <= Len(filt.array)
    /\ filt' = IF filt.verdicts[filt.i] = "rejects"
               THEN [filt EXCEPT !.pc = "done", !.sequential = Rejected(filt.i)]
               ELSE [filt EXCEPT
                         !.i = @ + 1,
                         !.kept = IF filt.verdicts[filt.i] = "true"
                                  THEN Append(@, filt.array[filt.i]) ELSE @]
    /\ UNCHANGED nonFilterVars

\* the loop is over: return results
FilterSequentialReturn ==
    /\ filt.pc = "sequential"
    /\ filt.i > Len(filt.array)
    /\ filt' = [filt EXCEPT !.pc = "done", !.sequential = Resolved(filt.kept)]
    /\ UNCHANGED nonFilterVars

NextFilter ==
    \/ FilterParallelCall \/ PredicateSettles \/ FilterParallelReturn
    \/ FilterSequentialCall \/ FilterSequentialStep \/ FilterSequentialReturn

SpecFilter == InitFilter /\ [][NextFilter]_vars

\* the items for which the predicate resolved true, in input order
ItemsResolvedTrue ==
    Subsequence(filt.array, {i \in DOMAIN filt.array : filt.verdicts[i] = "true"})

\* C23 as stated: filterParallel resolves to the items, in input order, for
\* which the predicate resolved true, whatever the items are, and that is the
\* array filterSequential resolves to
C23_FilterParallelEqualsSequential ==
    filt.pc # "idle" =>
        /\ filt.parallel.kind = "resolved" => filt.parallel.value = ItemsResolvedTrue
        /\ filt.sequential.kind = "resolved" => filt.sequential.value = ItemsResolvedTrue
        /\ (filt.parallel.kind = "resolved" /\ filt.sequential.kind = "resolved") =>
              filt.parallel.value = filt.sequential.value

(***************************************************************************)
(* timeout(promise, timeoutMs, errorMessage), in its two versions: the one *)
(* that keeps the id of its own setTimeout ("own timer") and the one that  *)
(* races against delay(timeoutMs) ("delay").  The wrapped promise is the   *)
(* environment: it is settled already at the call, settles later, or never *)
(* does.  A settlement and the microtasks it triggers (the race, the       *)
(* finally block, the return) run before any other task, so each is one    *)
(* step.                                                                   *)
(***************************************************************************)
TimeoutVariants == {"own timer", "delay"}
TimeoutsMs == {0, 2000, 3000}
DefaultErrorMessage == "Operation timed out"
ErrorMessages == {"undefined", "Too long"}
PromiseOutcomes == {Resolved(v) : v \in Values} \cup {Rejected(e) : e \in Errors}

\* new Error(errorMessage), errorMessage = 'Operation timed out' by default
TimeoutError(errorMessage) ==
    [error |-> "Error",
     message |-> IF errorMessage = "undefined" THEN DefaultErrorMessage ELSE errorMessage]

\* seeded fault: a later settlement replaces the outcome
SettleAgain(current, outcome) == outcome

\* a promise takes the first settlement it is given and ignores later ones
Settle(current, outcome) == IF current = Pending THEN outcome ELSE current

\* finally { if (timeoutId) clearTimeout(timeoutId) }: timeoutId is the id of the
\* timer in the version with its own timer, and the constant null in the other
Finally(variant, timer) ==
    IF variant = "own timer" /\ timer = "pending" THEN "cleared" ELSE timer

\* the race is settled by the promise or by the timer: the await resumes, the
\* finally block runs and the returned promise settles
Resume(t, event, outcome) ==
    IF t.returned # Pending
    THEN [t EXCEPT !.order = Append(@, event),
                   !.returned = Settle(@, outcome)]
    ELSE [t EXCEPT !.order = Append(@, event),
                   !.returned = Settle(@, outcome),
                   !.settlements = @ + 1,
                   !.timer = Finally(t.variant, @)]

InitTimeout ==
    /\ rbd = NoCall /\ inertia = NoCall /\ hist = <<>>
    /\ TreeIdle /\ TreeUseIdle /\ AsyncIdle
    /\ OnceIdle /\ FilterIdle /\ SequentialIdle /\ FocusIdle
    /\ tmo = NotCalled

\* timeout is called: the timer is scheduled and the race awaited; a promise that
\* is settled already wins the race before the timer can fire
TimeoutCall ==
    /\ tmo.pc = "idle"
    /\ \E variant \in TimeoutVariants, timeoutMs \in TimeoutsMs,
          errorMessage \in ErrorMessages, promise \in PromiseOutcomes \cup {Pending} :
          LET called == [pc |-> "called", variant |-> variant, timeoutMs |-> timeoutMs,
                         errorMessage |-> errorMessage, promise |-> promise,
                         timer |-> "pending", returned |-> Pending,
                         settlements |-> 0, order |-> <<>>]
          IN  tmo' = IF promise = Pending THEN called
                     ELSE Resume(called, "promise", promise)
    /\ UNCHANGED nonTimeoutVars

\* the wrapped promise settles
PromiseSettles ==
    /\ tmo.pc = "called"
    /\ tmo.promise = Pending
    /\ \E outcome \in PromiseOutcomes :
          tmo' = Resume([tmo EXCEPT !.promise = outcome], "promise", outcome)
    /\ UNCHANGED nonTimeoutVars

\* timeoutMs have elapsed and the timer was not cleared: its callback rejects the
\* timeout promise with new Error(errorMessage)
TimerFires ==
    /\ tmo.pc = "called"
    /\ tmo.timer = "pending"
    /\ tmo' = Resume([tmo EXCEPT !.timer = "fired"], "timer",
                     Rejected(TimeoutError(tmo.errorMessage)))
    /\ UNCHANGED nonTimeoutVars

NextTimeout == TimeoutCall \/ PromiseSettles \/ TimerFires

SpecTimeout == InitTimeout /\ [][NextTimeout]_vars

\* C24: the promise timeout returns settles once: with the outcome of the
\* wrapped promise when that settles before the timer fires, otherwise by
\* rejecting with an Error of the given message ('Operation timed out' by
\* default); the settlement of the loser does not change the outcome
C24_TimeoutSettlesOnceWithWinner ==
    tmo.pc = "called" =>
        /\ tmo.settlements = IF tmo.order = <<>> THEN 0 ELSE 1
        /\ tmo.order = <<>> => tmo.returned = Pending
        /\ (tmo.order # <<>> /\ tmo.order[1] = "promise") =>
              /\ tmo.promise # Pending
              /\ tmo.returned = tmo.promise
        /\ (tmo.order # <<>> /\ tmo.order[1] = "timer") =>
              /\ tmo.returned.kind = "rejected"
              /\ tmo.returned.error.error = "Error"
              /\ tmo.returned.error.message
                    = IF tmo.errorMessage = "undefined" THEN "Operation timed out"
                      ELSE tmo.errorMessage

\* the timer fired first, without a message given, and the wrapped promise
\* resolved afterwards: the returned promise stays rejected with the default message
C24_Witness ==
    /\ tmo.pc = "called"
    /\ tmo.order = <<"timer", "promise">>
    /\ tmo.promise = Resolved("V1")
    /\ tmo.errorMessage = "undefined"
    /\ tmo.returned = Rejected([error |-> "Error", message |-> "Operation timed out"])

\* C30 as stated: when the returned promise settled because the wrapped
\* promise settled first, the timer of timeout is not pending any more and
\* does not fire afterwards
C30_TimerClearedAfterSettle ==
    (tmo.pc = "called" /\ tmo.order # <<>> /\ tmo.order[1] = "promise") =>
        /\ tmo.timer = "cleared"
        /\ \A i \in DOMAIN tmo.order : tmo.order[i] # "timer"

(***************************************************************************)
(* runSequential(array, fn).  fn is the environment: each call of it       *)
(* throws, or returns a promise that later resolves or rejects.            *)
(***************************************************************************)
\* seeded fault: the result is put in front of the earlier ones
UnshiftResult(results, value) == <<value>> \o results

\* results.push(value)
PushResult(results, value) == Append(results, value)

InitSequential ==
    /\ rbd = NoCall /\ inertia = NoCall /\ hist = <<>>
    /\ TreeIdle /\ TreeUseIdle /\ AsyncIdle
    /\ OnceIdle /\ FilterIdle /\ TimeoutIdle /\ FocusIdle
    /\ seqRun = NotCalled

\* runSequential is called: results = [], i = 0 (the first index, 1 here)
RunSequentialCall ==
    /\ seqRun.pc = "idle"
    /\ \E n \in 0..MaxItems : \E array \in [1..n -> ItemValues] :
          seqRun' = [pc |-> "loop", array |-> array, i |-> 1, results |-> <<>>,
                     returned |-> Pending, log |-> <<>>]
    /\ UNCHANGED nonSequentialVars

\* i < array.length: fn(array[i], i, array) is called; it returns a promise, which
\* is awaited, or throws, which rejects runSequential
FnCalled ==
    /\ seqRun.pc = "loop"
    /\ seqRun.i <= Len(seqRun.array)
    /\ LET called == Append(seqRun.log, [ev |-> "call", index |-> seqRun.i,
                                         item |-> seqRun.array[seqRun.i]])
       IN  \/ seqRun' = [seqRun EXCEPT !.pc = "await", !.log = called]
           \/ \E e \in Errors :
                 seqRun' = [seqRun EXCEPT
                     !.pc = "done",
                     !.returned = Rejected(e),
                     !.log = Append(called, [ev |-> "throw", index |-> seqRun.i,
                                             error |-> e])]
    /\ UNCHANGED nonSequentialVars

\* the promise of fn resolves: the value is pushed and i++
FnResolves ==
    /\ seqRun.pc = "await"
    /\ \E v \in Values :
          seqRun' = [seqRun EXCEPT
              !.pc = "loop",
              !.results = PushResult(@, v),
              !.i = @ + 1,
              !.log = Append(@, [ev |-> "resolve", index |-> seqRun.i, value |-> v])]
    /\ UNCHANGED nonSequentialVars

\* the promise of fn rejects: the await throws out of the loop
FnRejects ==
    /\ seqRun.pc = "await"
    /\ \E e \in Errors :
          seqRun' = [seqRun EXCEPT
              !.pc = "done",
              !.returned = Rejected(e),
              !.log = Append(@, [ev |-> "reject", index |-> seqRun.i, error |-> e])]
    /\ UNCHANGED nonSequentialVars

\* the loop is over: return results
RunSequentialReturn ==
    /\ seqRun.pc = "loop"
    /\ seqRun.i > Len(seqRun.array)
    /\ seqRun' = [seqRun EXCEPT !.pc = "done", !.returned = Resolved(seqRun.results)]
    /\ UNCHANGED nonSequentialVars

NextSequential ==
    RunSequentialCall \/ FnCalled \/ FnResolves \/ FnRejects \/ RunSequentialReturn

SpecSequential == InitSequential /\ [][NextSequential]_vars

SeqEvents(kinds) ==
    IF seqRun.pc = "idle" THEN {}
    ELSE {k \in DOMAIN seqRun.log : seqRun.log[k].ev \in kinds}

\* C25: fn is called on the items one after another in index order, the call
\* for an item coming after the promise of the item before has resolved;
\* runSequential resolves with the values in input order; when fn fails for
\* an item it is called for no later item and runSequential rejects
C25_RunSequentialInOrder ==
    seqRun.pc # "idle" =>
        /\ \A k \in SeqEvents({"call"}) :
              /\ seqRun.log[k].index = Cardinality({j \in SeqEvents({"call"}) : j <= k})
              /\ seqRun.log[k].item = seqRun.array[seqRun.log[k].index]
              /\ seqRun.log[k].index > 1 =>
                    /\ seqRun.log[k - 1].ev = "resolve"
                    /\ seqRun.log[k - 1].index = seqRun.log[k].index - 1
        /\ \A k \in SeqEvents({"reject", "throw"}) :
              /\ k = Len(seqRun.log)
              /\ seqRun.pc = "done"
              /\ seqRun.returned = Rejected(seqRun.log[k].error)
        /\ seqRun.returned.kind = "resolved" =>
              /\ Len(seqRun.returned.value) = Len(seqRun.array)
              /\ \A i \in DOMAIN seqRun.array :
                    \E k \in SeqEvents({"resolve"}) :
                        /\ seqRun.log[k].index = i
                        /\ seqRun.log[k].value = seqRun.returned.value[i]
        /\ seqRun.returned.kind = "rejected" => SeqEvents({"reject", "throw"}) # {}

\* three items were processed, the first resolving V2 and the others V1: the
\* result is [V2, V1, V1]
C25_Witness ==
    /\ seqRun.pc = "done"
    /\ Len(seqRun.array) = 3
    /\ seqRun.returned = Resolved(<<"V2", "V1", "V1">>)
    /\ Len(seqRun.log) = 6

(***************************************************************************)
(* moveFocusWithinContainer(direction, container, { wrap, getNextIndex }). *)
(* The document is a forest of at most MaxElements elements, numbered in   *)
(* document order; parentElement[e] is 0 for an element without parent;    *)
(* whether an element is focusable is given (isHtmlElementFocusable is not *)
(* modelled).  Element 0 stands for null.  Indices into focusableElements  *)
(* count from 0, as in the code.                                           *)
(***************************************************************************)
MaxElements == 3

Directions == {"next", "previous"}
Wraps == {"undefined", "true", "false"}

RECURSIVE Contains(_, _, _)
\* scope is an ancestor of element e
Contains(parentElement, scope, e) ==
    /\ parentElement[e] # 0
    /\ (parentElement[e] = scope \/ Contains(parentElement, scope, parentElement[e]))

\* the numbering is the document order: the parent of an element is the element
\* before it or an ancestor of that one
InDocumentOrder(parentElement) ==
    \A e \in DOMAIN parentElement :
        \/ parentElement[e] = 0
        \/ parentElement[e] = e - 1
        \/ (e > 1 /\ Contains(parentElement, parentElement[e], e - 1))

\* Array.from(container.querySelectorAll('*')).filter(isHtmlElementFocusable)
getFocusableHtmlElements(doc, scope) ==
    SeqOfSet({e \in DOMAIN doc.parentElement :
                 Contains(doc.parentElement, scope, e) /\ doc.focusable[e]})

\* focusableElements.indexOf(activeElement)
IndexOf(elements, e) ==
    IF \E k \in DOMAIN elements : elements[k] = e
    THEN (CHOOSE k \in DOMAIN elements : elements[k] = e) - 1
    ELSE -1

\* { wrap = true }
WrapOf(wrap) == wrap # "false"

\* seeded fault: the index past either end is null whatever wrap is
DefaultNextIndexNoWrap(currentIndex, direction, length, wrap) ==
    LET nextIndex == IF direction = "next" THEN currentIndex + 1 ELSE currentIndex - 1
    IN  IF nextIndex >= length \/ nextIndex < 0 THEN JsNull ELSE JsNumber(nextIndex)

\* the navigation without getNextIndex
DefaultNextIndex(currentIndex, direction, length, wrap) ==
    IF direction = "next"
    THEN IF currentIndex + 1 >= length
         THEN (IF wrap THEN JsNumber(0) ELSE JsNull)
         ELSE JsNumber(currentIndex + 1)
    ELSE IF currentIndex - 1 < 0
         THEN (IF wrap THEN JsNumber(length - 1) ELSE JsNull)
         ELSE JsNumber(currentIndex - 1)

\* what getNextIndex may return: null or a number, in range or not
NextIndexResults == {JsNull} \cup {JsNumber(k) : k \in -1..MaxElements}

\* the element moveFocusWithinContainer focuses, 0 when it focuses none
FocusedBy(doc, direction, container, wrap, getNextIndex) ==
    LET activeElement == doc.activeElement
        scope == IF container # 0 THEN container
                 ELSE IF activeElement # 0 THEN doc.parentElement[activeElement]
                 ELSE 0
    IN  IF activeElement = 0 \/ scope = 0 THEN 0
        ELSE
        LET focusableElements == getFocusableHtmlElements(doc, scope)
            currentIndex == IndexOf(focusableElements, activeElement)
        IN  IF Len(focusableElements) = 0 THEN 0
            ELSE IF currentIndex = -1 THEN 0
            ELSE
            LET nextIndex == IF getNextIndex # JsAbsent THEN getNextIndex
                             ELSE DefaultNextIndex(currentIndex, direction,
                                                   Len(focusableElements), WrapOf(wrap))
            IN  IF nextIndex = JsNull THEN 0
                ELSE IF nextIndex.v + 1 \in DOMAIN focusableElements
                THEN focusableElements[nextIndex.v + 1]
                ELSE 0

InitFocus ==
    /\ rbd = NoCall /\ inertia = NoCall /\ hist = <<>>
    /\ TreeIdle /\ TreeUseIdle /\ AsyncIdle
    /\ OnceIdle /\ FilterIdle /\ TimeoutIdle /\ SequentialIdle
    /\ focus = NotCalled

\* a document is there: its elements, which of them are focusable, and the
\* active element, if any
DocumentReady ==
    /\ focus.pc = "idle"
    /\ \E n \in 0..MaxElements :
          \E parentElement \in [1..n -> 0..n], focusable \in [1..n -> BOOLEAN],
             activeElement \in 0..n :
              /\ \A e \in 1..n : parentElement[e] < e
              /\ InDocumentOrder(parentElement)
              /\ focus' = [pc |-> "ready", parentElement |-> parentElement,
                           focusable |-> focusable, activeElement |-> activeElement,
                           call |-> NotCalled]
    /\ UNCHANGED nonFocusVars

\* moveFocusWithinContainer is called, once in a behaviour; focus() makes the
\* element the active one
MoveFocusWithinContainer ==
    /\ focus.pc = "ready"
    /\ focus.call = NotCalled
    /\ \E direction \in Directions, container \in 0..Len(focus.parentElement),
          wrap \in Wraps, getNextIndex \in {JsAbsent} \cup NextIndexResults :
          LET focused == FocusedBy(focus, direction, container, wrap, getNextIndex)
          IN  focus' = [focus EXCEPT
                  !.activeElement = IF focused # 0 THEN focused ELSE @,
                  !.call = [pc |-> "done", direction |-> direction,
                            container |-> container, wrap |-> wrap,
                            getNextIndex |-> getNextIndex,
                            activeBefore |-> focus.activeElement,
                            focused |-> focused]]
    /\ UNCHANGED nonFocusVars

NextFocus == DocumentReady \/ MoveFocusWithinContainer

SpecFocus == InitFocus /\ [][NextFocus]_vars

\* the call that was made, and the focusable elements of its scope, read off
\* the document
MoveDone == focus.pc = "ready" /\ focus.call # NotCalled
ScopeOfCall ==
    IF focus.call.container # 0 THEN focus.call.container
    ELSE IF focus.call.activeBefore # 0 THEN focus.parentElement[focus.call.activeBefore]
    ELSE 0
FocusableInScope ==
    IF ScopeOfCall = 0 THEN <<>>
    ELSE SeqOfSet({e \in DOMAIN focus.parentElement :
                      /\ focus.focusable[e]
                      /\ Contains(focus.parentElement, ScopeOfCall, e)})
PositionOfActive ==
    IF \E k \in DOMAIN FocusableInScope : FocusableInScope[k] = focus.call.activeBefore
    THEN CHOOSE k \in DOMAIN FocusableInScope :
             FocusableInScope[k] = focus.call.activeBefore
    ELSE 0

\* C26: without getNextIndex, from position i of the n focusable elements of
\* the scope 'next' focuses position i + 1 and 'previous' position i - 1; past
\* the last element the first is focused, and before the first the last, when
\* wrap is true (the default), and nothing when it is false; without an active
\* element, without a scope, or with an active element outside the focusable
\* set, nothing is focused and the active element stays
C26_MoveFocusNextPreviousWrap ==
    (MoveDone /\ focus.call.getNextIndex = JsAbsent) =>
        LET n == Len(FocusableInScope)
            i == PositionOfActive
            wrap == focus.call.wrap \in {"undefined", "true"}
            target == IF focus.call.direction = "next"
                      THEN (IF i < n THEN i + 1 ELSE IF wrap THEN 1 ELSE 0)
                      ELSE (IF i > 1 THEN i - 1 ELSE IF wrap THEN n ELSE 0)
        IN  IF i = 0 \/ target = 0
            THEN /\ focus.call.focused = 0
                 /\ focus.activeElement = focus.call.activeBefore
            ELSE /\ focus.call.focused = FocusableInScope[target]
                 /\ focus.activeElement = FocusableInScope[target]

\* 'next' from the last of two focusable elements of the container, with the
\* default wrap, focused the first, past an element that is not focusable
C26_Witness ==
    /\ MoveDone
    /\ focus.call.getNextIndex = JsAbsent
    /\ focus.call.wrap = "undefined"
    /\ focus.call.direction = "next"
    /\ focus.call.container = 0
    /\ Len(focus.parentElement) = 3
    /\ Len(FocusableInScope) = 2
    /\ focus.call.activeBefore = FocusableInScope[2]
    /\ focus.activeElement = FocusableInScope[1]

\* how often an input node is in the result of searchTree
Occurrences(x) == Cardinality({i \in DOMAIN ResultOrigins : ResultOrigins[i] = x})

\* C27 as stated: a node that does not match and has two or more directly
\* matching children is once in the result of searchTree, and so is each of
\* its ancestors, whether the node is a root or not
C27_ParentOfMatchingSiblingsOnce ==
    Searched =>
        \A x \in InputNodes \ Matching :
            Cardinality(Range(InputChildren(x)) \cap Matching) >= 2 =>
                /\ Occurrences(x) = 1
                /\ \A y \in Ancestors(x) : Occurrences(y) = 1

(***************************************************************************)
(* The inertia loop over several calls: direction and termination.         *)
(***************************************************************************)
\* Math.sign of a number
Sgn(a) == IF a[1] > 0 THEN 1 ELSE IF a[1] < 0 THEN -1 ELSE 0

\* C28: along the loop (deltaTimeMs >= 0, friction >= 0, emaAlpha in [0, 1]) every
\* velocity has the sign of the starting velocity, and every returned value is
\* not below the value passed in when the velocity is positive and not above it
\* when the velocity is negative
C28_NoOscillation ==
    /\ FedBack
    /\ \A i \in DOMAIN hist : Sgn(hist[i].velocityPxMs) = Sgn(hist[1].velocityPxMs)
    /\ \A i \in Returned :
          /\ Sgn(hist[i].result.velocityPxMs) = Sgn(hist[i].velocityPxMs)
          /\ Sgn(hist[i].velocityPxMs) = 1 => Sgn(Sub(hist[i].result.value, hist[i].value)) >= 0
          /\ Sgn(hist[i].velocityPxMs) = -1 => Sgn(Sub(hist[i].result.value, hist[i].value)) <= 0

\* a loop moving down under friction was stopped on min by the second call, and
\* the third call, still with a velocity above the threshold, returned null
C28_Witness ==
    /\ Len(hist) = 3
    /\ Returned = {1, 2}
    /\ Gt(inertia.opts.friction, Num(0))
    /\ Lt(hist[1].velocityPxMs, Num(0))
    /\ Sgn(Sub(hist[1].result.value, hist[1].value)) = -1
    /\ Gt(hist[2].value, inertia.min)
    /\ hist[2].result.value = inertia.min
    /\ Lt(hist[3].velocityPxMs, Num(0))
    /\ Ge(MathAbs(hist[3].velocityPxMs), MinVelocityOf(inertia.opts))
    /\ Gt(hist[3].deltaTimeMs, Num(0))

(***************************************************************************)
(* The loop run to its end: requestAnimationFrame keeps calling            *)
(* applyInertiaStep while the result is not null                           *)
(* (src/src/geometry/apply-inertia-step.ts:129-132), so a tick that can    *)
(* be taken is taken.                                                      *)
(***************************************************************************)
\* calls after which a loop is given up as not ending
MaxLoopSteps == 7

\* the time between two frames, in ms: none, or the constant frame time
FrameTimes == {Num(0), Num(8)}
LoopFrictions == {Num(0), Norm(1, 8), Norm(1, 4)}
LoopMinVelocities == {Num(0), Norm(1, 4)}
LoopEmaAlphas == {Num(0), Norm(1, 2), Num(1)}
LoopVelocities == {v \in Velocities : v = Num(0) \/ Ge(MathAbs(v), Norm(1, 2))}

InitInertiaLoop ==
    /\ rbd = NoCall
    /\ hist = <<>>
    /\ NonMotionIdle
    /\ \E variant \in Variants, min \in Mins, velocityPxMs \in LoopVelocities,
          friction \in LoopFrictions, minVelocityPxMs \in LoopMinVelocities,
          emaAlpha \in LoopEmaAlphas :
         \E value \in StartValues(min, Num(MaxPos)) :
            inertia = [pc |-> "run", variant |-> variant,
                       min |-> min, max |-> Num(MaxPos),
                       opts |-> [friction |-> friction, minVelocityPxMs |-> minVelocityPxMs,
                                 emaAlpha |-> IF variant = "ema" THEN emaAlpha ELSE Undefined],
                       value |-> value, velocityPxMs |-> velocityPxMs]

InertiaLoopTick == Tick(MaxLoopSteps, FrameTimes)

NextInertiaLoop == InertiaLoopTick

SpecInertiaLoop == InitInertiaLoop /\ [][NextInertiaLoop]_vars /\ WF_vars(InertiaLoopTick)

\* the loop got null from applyInertiaStep
Blocked == inertia.pc = "blocked"

\* finite bounds with min <= value <= max, friction > 0 and minVelocityPxMs > 0
LoopPreconditions ==
    \A loop \in {inertia} :
        /\ InRange(loop.value, loop.min, loop.max)
        /\ Gt(loop.opts.friction, Num(0))
        /\ Gt(MinVelocityOf(loop.opts), Num(0))

\* C29: a loop with min <= value <= max, friction > 0 and minVelocityPxMs > 0,
\* called with deltaTimeMs > 0, gets null after finitely many calls
C29_LoopReachesNull == LoopPreconditions ~> Blocked

\* a loop under friction and smoothing, started inside the bounds, was called
\* five times with the frame time and got null from the fifth call, short of
\* either bound: the velocity had decayed to the threshold
C29_Witness ==
    /\ LoopPreconditions
    /\ Blocked
    /\ Len(hist) = 5
    /\ inertia.variant = "ema"
    /\ inertia.opts.emaAlpha = Norm(1, 2)
    /\ \A i \in DOMAIN hist : hist[i].deltaTimeMs = Num(8)
    /\ Returned = {1, 2, 3, 4}
    /\ Lt(inertia.min, inertia.value) /\ Lt(inertia.value, inertia.max)
    /\ Ge(MathAbs(hist[5].velocityPxMs), MinVelocityOf(inertia.opts))

=============================================================================
